---- MODULE Spec2Model ----
(***************************************************************************)
(* A model of the dataset merge engine of the analytics dashboard          *)
(* (src/services/dataMerger.js): mergeDatasets with its helpers            *)
(* normalizeKey, buildMergedRow and appendDatasets.                        *)
(*                                                                         *)
(* Scalars are tagged records, strings that the code inspects character by *)
(* character (join-key values) are sequences of one-character strings, and *)
(* column names are TLA+ strings.  A row is a function from field names to *)
(* scalars; a field the row does not have reads as undefined.              *)
(***************************************************************************)
EXTENDS Integers, Sequences, FiniteSets, TLC

VARIABLES
    leftData,       \* opts.leftData: sequence of rows
    rightData,      \* opts.rightData: sequence of rows
    leftColumns,    \* opts.leftColumns: sequence of [name, type]
    rightColumns,   \* opts.rightColumns
    leftKey,        \* opts.leftKey
    rightKey,       \* opts.rightKey
    joinType,       \* opts.joinType
    result,         \* the value mergeDatasets returned: [data, columns]
    emitted,        \* history: for each row of result.data, the positions
                    \* [l, r] of the input rows it was built from (0: none)
    pc,             \* "ready" before the call, "done" after it
    columns,        \* recommendCharts: the dataset columns
    dimension,      \* recommendCharts: the assigned dimension, or Undefined
    measures,       \* recommendCharts: the assigned measures, or Undefined
    recs,           \* the list recommendCharts returned
    rpc,            \* "idle", "ready" before the call, "done" after it
    sugLeftCols,       \* suggestJoinKeys: the columns of the left dataset
    sugRightCols,      \* suggestJoinKeys: the columns of the right dataset
    suggestions,    \* the list suggestJoinKeys returned
    spc,            \* "idle", "ready" before the call, "done" after it
    fileHeaders,    \* handleFileUpload: the fields of the first line of the file
    fileRows,       \* handleFileUpload: the fields of each later line
    ingested,       \* the dataset handed to onAddDataset, or Null
    upc,            \* "idle", "ready", "done" or "failed" (the catch branch)
    datasets,       \* App: the list of datasets
    selectedDatasetId,  \* App: the id of the dataset selected in the data panel
    showMerger,     \* App: whether the merge dialog is mounted
    pages,          \* App: the list of report pages [id, name]
    activePageId,   \* App: the id of the page shown
    charts,         \* App: the list of chart configurations
    activeChartId,  \* App: the id of the chart being edited, or Null
    view,           \* App: "data" or "report"
    showNewChartPrompt,  \* App: whether the new-chart prompt is open
    now,            \* the value Date.now() returns
    leftId,         \* DataMerger: the id of the left dataset, or ""
    rightId,        \* DataMerger: the id of the right dataset, or ""
    dlgJoinType,    \* DataMerger: the join type selected
    keyPairs,       \* DataMerger: the list of [leftKey, rightKey]
    mergedName,     \* DataMerger: the text of the name field
    previewData,    \* DataMerger: the last preview, or Null
    error,          \* DataMerger: the error text, "" for none
    step            \* DataMerger: 1 = config, 2 = preview, 0 = not mounted

mergeVars == <<leftData, rightData, leftColumns, rightColumns, leftKey,
               rightKey, joinType, result, emitted, pc>>

recVars == <<columns, dimension, measures, recs, rpc>>

sugVars == <<sugLeftCols, sugRightCols, suggestions, spc>>

upVars == <<fileHeaders, fileRows, ingested, upc>>

appVars == <<datasets, selectedDatasetId, showMerger, pages, activePageId,
             charts, activeChartId, view, showNewChartPrompt, now>>

dlgVars == <<leftId, rightId, dlgJoinType, keyPairs, mergedName, previewData,
             error, step>>

\* the variables of the four service calls
callVars == <<mergeVars, recVars, sugVars, upVars>>

vars == <<mergeVars, recVars, sugVars, upVars, appVars, dlgVars>>

inputs == <<leftData, rightData, leftColumns, rightColumns, leftKey, rightKey,
            joinType>>

(***************************************************************************)
(* Bounds of the model.                                                    *)
(***************************************************************************)
MaxRows == 2        \* rows per dataset in the row-shaped inputs
MaxCols == 2        \* columns per dataset in the schema-shaped inputs
MaxRecCols == 3     \* columns of the dataset given to recommendCharts
MaxMeasures == 3    \* assigned measures given to recommendCharts
MaxSugCols == 2     \* columns per dataset given to suggestJoinKeys
MaxFileRows == 3    \* lines after the header line of an uploaded file
MaxKeyPairs == 2    \* key pairs in the merge dialog
MaxPages == 3       \* report pages
MaxCharts == 2      \* charts

(***************************************************************************)
(* JavaScript scalars.                                                     *)
(***************************************************************************)
Null      == [t |-> "null"]
Undefined == [t |-> "undefined"]
Num(n)    == [t |-> "number", n |-> n]
Str(s)    == [t |-> "string", s |-> s]

IsNullish(v) == v = Null \/ v = Undefined

\* a ?? null
Coalesce(v) == IF IsNullish(v) THEN Null ELSE v

\* row[name]: undefined when the row has no such field
Get(row, name) == IF name \in DOMAIN row THEN row[name] ELSE Undefined

\* row[name] = v on a plain object: a later write to the same name overwrites
SetField(row, name, v) ==
    [n \in (DOMAIN row) \cup {name} |-> IF n = name THEN v ELSE row[n]]

EmptyRow == [n \in {} |-> Null]

(***************************************************************************)
(* String(val), String.prototype.trim and String.prototype.toLowerCase on  *)
(* the characters the model uses.                                          *)
(***************************************************************************)
Digits == <<"0", "1", "2", "3", "4", "5", "6", "7", "8", "9">>

RECURSIVE ToDigits(_)
ToDigits(n) ==
    IF n < 10 THEN <<Digits[n + 1]>>
    ELSE ToDigits(n \div 10) \o <<Digits[(n % 10) + 1]>>

String(val) == IF val.t = "number" THEN ToDigits(val.n) ELSE val.s

UpperChars == <<"A", "B", "F", "L", "N", "O", "U", "X">>
LowerChars == <<"a", "b", "f", "l", "n", "o", "u", "x">>

LowerOf(ch) ==
    IF \E i \in 1..Len(UpperChars) : UpperChars[i] = ch
    THEN LowerChars[CHOOSE i \in 1..Len(UpperChars) : UpperChars[i] = ch]
    ELSE ch

toLowerCase(s) == [i \in 1..Len(s) |-> LowerOf(s[i])]

IsWhitespace(ch) == ch \in {" ", "\t"}

RECURSIVE trimStart(_)
trimStart(s) ==
    IF s # <<>> /\ IsWhitespace(Head(s)) THEN trimStart(Tail(s)) ELSE s

RECURSIVE trimEnd(_)
trimEnd(s) ==
    IF s # <<>> /\ IsWhitespace(s[Len(s)])
    THEN trimEnd(SubSeq(s, 1, Len(s) - 1))
    ELSE s

trim(s) == trimEnd(trimStart(s))

(***************************************************************************)
(* normalizeKey                                                            *)
(***************************************************************************)
NullSentinel == <<"_", "_", "N", "U", "L", "L", "_", "_">>

\* faulty variant of normalizeKey: the key is lowercased but not trimmed
normalizeKey_NoTrim(val) ==
    IF val = Null \/ val = Undefined THEN NullSentinel
    ELSE toLowerCase(String(val))

\* faulty variant of normalizeKey: the key is trimmed but keeps its case
normalizeKey_KeepsCase(val) ==
    IF val = Null \/ val = Undefined THEN NullSentinel
    ELSE trim(String(val))

normalizeKey(val) ==
    IF val = Null \/ val = Undefined THEN NullSentinel
    ELSE toLowerCase(trim(String(val)))

(***************************************************************************)
(* The lookup map of the right dataset: normalized key -> the positions of *)
(* the right rows with that key, in rightData order.                       *)
(***************************************************************************)
RECURSIVE buildRightMap(_, _, _, _)
buildRightMap(rData, rKey, i, map) ==
    IF i > Len(rData) THEN map
    ELSE LET key == normalizeKey(Get(rData[i], rKey))
             had == IF key \in DOMAIN map THEN map[key] ELSE <<>>
         IN  buildRightMap(rData, rKey, i + 1,
                [k \in (DOMAIN map) \cup {key} |->
                    IF k = key THEN Append(had, i) ELSE map[k]])

EmptyMap == [k \in {} |-> <<>>]

\* rightMap.get(key): undefined (here the empty list) when absent
MapGet(map, key) == IF key \in DOMAIN map THEN map[key] ELSE <<>>

(***************************************************************************)
(* The merged column list.                                                 *)
(***************************************************************************)
ColNames(cols) == {cols[i].name : i \in 1..Len(cols)}

rightColsFiltered(rCols, rKey) ==
    SelectSeq(rCols, LAMBDA c : c.name # rKey)

renameRightCol(c, leftColNames) ==
    IF c.name \in leftColNames
    THEN [name |-> c.name \o "_right", type |-> c.type, originalName |-> c.name]
    ELSE [name |-> c.name, type |-> c.type, originalName |-> c.name]

renamedRightCols(lCols, rCols, rKey) ==
    LET filtered == rightColsFiltered(rCols, rKey)
    IN  [i \in 1..Len(filtered) |-> renameRightCol(filtered[i], ColNames(lCols))]

(***************************************************************************)
(* buildMergedRow: leftRow / rightRow are rows, or Null for "no row".      *)
(***************************************************************************)
\* c.originalName || c.name : the empty string is falsy
sourceKey(c) == IF c.originalName # "" THEN c.originalName ELSE c.name

RECURSIVE assignLeftCols(_, _, _, _)
assignLeftCols(row, leftRow, leftCols, i) ==
    IF i > Len(leftCols) THEN row
    ELSE assignLeftCols(
            SetField(row, leftCols[i].name,
                     IF leftRow # Null
                     THEN Coalesce(Get(leftRow, leftCols[i].name))
                     ELSE Null),
            leftRow, leftCols, i + 1)

RECURSIVE assignRightCols(_, _, _, _)
assignRightCols(row, rightRow, renamed, i) ==
    IF i > Len(renamed) THEN row
    ELSE assignRightCols(
            SetField(row, renamed[i].name,
                     IF rightRow # Null
                     THEN Coalesce(Get(rightRow, sourceKey(renamed[i])))
                     ELSE Null),
            rightRow, renamed, i + 1)

buildMergedRow(leftRow, rightRow, leftCols, renamed) ==
    assignRightCols(assignLeftCols(EmptyRow, leftRow, leftCols, 1),
                    rightRow, renamed, 1)

(***************************************************************************)
(* The two passes of the join, on row positions.  acc = [out, used]: the   *)
(* pairs emitted so far and usedRightKeys.                                 *)
(***************************************************************************)
\* faulty variant of matchPairs: only the first matching right row is joined
matchPairs_FirstOnly(i, matches) ==
    [j \in 1..(IF Len(matches) > 0 THEN 1 ELSE 0) |-> [l |-> i, r |-> matches[j]]]

matchPairs(i, matches) == [j \in 1..Len(matches) |-> [l |-> i, r |-> matches[j]]]

\* faulty variant of walkLeftRows: an unmatched left row is kept by the
\* left join only
RECURSIVE walkLeftRows_LeftOnly(_, _, _, _, _, _)
walkLeftRows_LeftOnly(lData, lKey, rightMap, jType, i, acc) ==
    IF i > Len(lData) THEN acc
    ELSE LET key     == normalizeKey(Get(lData[i], lKey))
             matches == MapGet(rightMap, key)
             next    ==
                IF Len(matches) > 0
                THEN [out  |-> acc.out \o [j \in 1..Len(matches) |->
                                              [l |-> i, r |-> matches[j]]],
                      used |-> acc.used \cup {key}]
                ELSE IF jType = "left"
                THEN [out  |-> Append(acc.out, [l |-> i, r |-> 0]),
                      used |-> acc.used]
                ELSE acc
         IN  walkLeftRows_LeftOnly(lData, lKey, rightMap, jType, i + 1, next)

RECURSIVE walkLeftRows(_, _, _, _, _, _)
walkLeftRows(lData, lKey, rightMap, jType, i, acc) ==
    IF i > Len(lData) THEN acc
    ELSE LET key     == normalizeKey(Get(lData[i], lKey))
             matches == MapGet(rightMap, key)
             next    ==
                IF Len(matches) > 0
                THEN [out  |-> acc.out \o matchPairs(i, matches),
                      used |-> acc.used \cup {key}]
                ELSE IF jType = "left" \/ jType = "full"
                THEN [out  |-> Append(acc.out, [l |-> i, r |-> 0]),
                      used |-> acc.used]
                ELSE acc
         IN  walkLeftRows(lData, lKey, rightMap, jType, i + 1, next)

\* faulty variant of addUnmatchedRight: every right row is added, matched
\* or not
RECURSIVE addUnmatchedRight_AddsAll(_, _, _, _, _)
addUnmatchedRight_AddsAll(rData, rKey, used, i, out) ==
    IF i > Len(rData) THEN out
    ELSE addUnmatchedRight_AddsAll(rData, rKey, used, i + 1,
                                   Append(out, [l |-> 0, r |-> i]))

RECURSIVE addUnmatchedRight(_, _, _, _, _)
addUnmatchedRight(rData, rKey, used, i, out) ==
    IF i > Len(rData) THEN out
    ELSE LET key == normalizeKey(Get(rData[i], rKey))
         IN  addUnmatchedRight(rData, rKey, used, i + 1,
                IF key \notin used
                THEN Append(out, [l |-> 0, r |-> i])
                ELSE out)

\* faulty variant of joinPairs: the unmatched right rows are added by the
\* full join only
joinPairs_FullOnly(lData, rData, lKey, rKey, jType) ==
    LET rightMap == buildRightMap(rData, rKey, 1, EmptyMap)
        walked   == walkLeftRows(lData, lKey, rightMap, jType, 1,
                                 [out |-> <<>>, used |-> {}])
    IN  IF jType = "full"
        THEN addUnmatchedRight(rData, rKey, walked.used, 1, walked.out)
        ELSE walked.out

joinPairs(lData, rData, lKey, rKey, jType) ==
    LET rightMap == buildRightMap(rData, rKey, 1, EmptyMap)
        walked   == walkLeftRows(lData, lKey, rightMap, jType, 1,
                                 [out |-> <<>>, used |-> {}])
    IN  IF jType = "right" \/ jType = "full"
        THEN addUnmatchedRight(rData, rKey, walked.used, 1, walked.out)
        ELSE walked.out

(***************************************************************************)
(* appendDatasets.  colMap is an insertion-ordered Map, kept as the list   *)
(* of its values in insertion order.                                       *)
(***************************************************************************)
RECURSIVE setAllCols(_, _, _)
setAllCols(colMap, cols, i) ==       \* colMap.set(c.name, c) for each c
    IF i > Len(cols) THEN colMap
    ELSE setAllCols(
            IF cols[i].name \in ColNames(colMap)
            THEN [k \in 1..Len(colMap) |->
                    IF colMap[k].name = cols[i].name THEN cols[i] ELSE colMap[k]]
            ELSE Append(colMap, cols[i]),
            cols, i + 1)

\* faulty variant of setNewCols: a right column replaces the left column
\* of the same name
RECURSIVE setNewCols_Overwrite(_, _, _)
setNewCols_Overwrite(colMap, cols, i) ==
    IF i > Len(cols) THEN colMap
    ELSE setNewCols_Overwrite(
            IF cols[i].name \in ColNames(colMap)
            THEN [k \in 1..Len(colMap) |->
                    IF colMap[k].name = cols[i].name THEN cols[i] ELSE colMap[k]]
            ELSE Append(colMap, cols[i]),
            cols, i + 1)

RECURSIVE setNewCols(_, _, _)
setNewCols(colMap, cols, i) ==       \* if (!colMap.has(c.name)) colMap.set(...)
    IF i > Len(cols) THEN colMap
    ELSE setNewCols(
            IF cols[i].name \in ColNames(colMap) THEN colMap
            ELSE Append(colMap, cols[i]),
            cols, i + 1)

\* faulty variant of normalizeRow: a column the row lacks is left out
\* instead of being filled with null
RECURSIVE normalizeRow_NoFill(_, _, _, _)
normalizeRow_NoFill(out, row, allColNames, i) ==
    IF i > Len(allColNames) THEN out
    ELSE normalizeRow_NoFill(
            IF allColNames[i] \in DOMAIN row
            THEN SetField(out, allColNames[i], Coalesce(Get(row, allColNames[i])))
            ELSE out,
            row, allColNames, i + 1)

RECURSIVE normalizeRow(_, _, _, _)
normalizeRow(out, row, allColNames, i) ==
    IF i > Len(allColNames) THEN out
    ELSE normalizeRow(SetField(out, allColNames[i],
                               Coalesce(Get(row, allColNames[i]))),
                      row, allColNames, i + 1)

appendDatasets(lData, rData, lCols, rCols) ==
    LET mergedColumns == setNewCols(setAllCols(<<>>, lCols, 1), rCols, 1)
        allColNames   == [i \in 1..Len(mergedColumns) |-> mergedColumns[i].name]
        normalize(row) == normalizeRow(EmptyRow, row, allColNames, 1)
    IN  [data    |-> [i \in 1..Len(lData) |-> normalize(lData[i])]
                     \o [i \in 1..Len(rData) |-> normalize(rData[i])],
         columns |-> mergedColumns]

(***************************************************************************)
(* mergeDatasets                                                           *)
(***************************************************************************)
RowAt(data, i) == IF i = 0 THEN Null ELSE data[i]

mergeDatasets(lData, rData, lCols, rCols, lKey, rKey, jType) ==
    IF jType = "append" THEN appendDatasets(lData, rData, lCols, rCols)
    ELSE LET renamed == renamedRightCols(lCols, rCols, rKey)
             pairs   == joinPairs(lData, rData, lKey, rKey, jType)
         IN  [data    |-> [k \in 1..Len(pairs) |->
                              buildMergedRow(RowAt(lData, pairs[k].l),
                                             RowAt(rData, pairs[k].r),
                                             lCols, renamed)],
              columns |-> lCols \o renamed]

\* which input rows each output row comes from (append: left then right)
mergeSources(lData, rData, lKey, rKey, jType) ==
    IF jType = "append"
    THEN [i \in 1..Len(lData) |-> [l |-> i, r |-> 0]]
         \o [i \in 1..Len(rData) |-> [l |-> 0, r |-> i]]
    ELSE joinPairs(lData, rData, lKey, rKey, jType)

(***************************************************************************)
(* recommendCharts (src/services/chartRecommender.js).                     *)
(***************************************************************************)
CountOfType(cols, type) ==
    Len(SelectSeq(cols, LAMBDA c : c.type = type))

\* !!dimension : undefined, null and the empty string are falsy
hasDimension(dim) == ~(IsNullish(dim) \/ dim = Str(<<>>))

\* an array value
List(items) == [t |-> "array", items |-> items]

\* measures?.length || 0
measureCount(ms) == IF IsNullish(ms) THEN 0 ELSE Len(ms.items)

\* faulty variant of effectiveNumeric: the assigned measures are ignored
effectiveNumeric_ColumnsOnly(cols, ms) == CountOfType(cols, "number")

effectiveNumeric(cols, ms) ==
    IF measureCount(ms) > 0 THEN measureCount(ms) ELSE CountOfType(cols, "number")

\* faulty variant of effectiveCategorical: with a dimension assigned the
\* string columns still count when there are several
effectiveCategorical_KeepsColumns(cols, dim) ==
    IF hasDimension(dim) /\ CountOfType(cols, "string") < 1 THEN 1
    ELSE CountOfType(cols, "string")

effectiveCategorical(cols, dim) ==
    IF hasDimension(dim) THEN 1 ELSE CountOfType(cols, "string")

effectiveDate(cols) == CountOfType(cols, "date")

Rec(type, score, reason) == [type |-> type, score |-> score, reason |-> reason]

\* the add(...) calls of each rule, in the order of the source
ruleBars(cat, num) ==
    IF cat >= 1 /\ num >= 1
    THEN <<Rec("BAR_CLUSTERED", 90, "Compare values across categories"),
           Rec("BAR_HORIZONTAL", 82, "Horizontal comparison for readability")>>
         \o (IF num >= 2
             THEN <<Rec("BAR_STACKED", 85, "Show composition across categories"),
                    Rec("BAR_PERCENT", 78, "Show proportional breakdown")>>
             ELSE <<>>)
    ELSE <<>>

\* faulty variant of ruleTimeSeries: the smooth line scores 85, below the
\* straight line
ruleTimeSeries_LowSmooth(date, num) ==
    IF date >= 1 /\ num >= 1
    THEN <<Rec("LINE_SMOOTH", 85, "Best for time-series trends"),
           Rec("LINE_STRAIGHT", 88, "Precise trend tracking"),
           Rec("AREA_SMOOTH", 84, "Time trend with volume emphasis"),
           Rec("AREA_STACKED", 80, "Stacked area for cumulative trends")>>
    ELSE <<>>

ruleTimeSeries(date, num) ==
    IF date >= 1 /\ num >= 1
    THEN <<Rec("LINE_SMOOTH", 95, "Best for time-series trends"),
           Rec("LINE_STRAIGHT", 88, "Precise trend tracking"),
           Rec("AREA_SMOOTH", 84, "Time trend with volume emphasis"),
           Rec("AREA_STACKED", 80, "Stacked area for cumulative trends")>>
    ELSE <<>>

ruleCategoryLines(cat, num) ==
    IF cat >= 1 /\ num >= 1
    THEN <<Rec("LINE_SMOOTH", 70, "Trend across categories"),
           Rec("AREA_SMOOTH", 65, "Area trend across categories")>>
    ELSE <<>>

rulePartToWhole(cat, num) ==
    IF cat >= 1 /\ num >= 1
    THEN <<Rec("PIE", 75, "Show proportions of a whole"),
           Rec("DONUT", 74, "Proportions with a clean center"),
           Rec("TREEMAP", 68, "Hierarchical proportions"),
           Rec("ROSE", 60, "Polar proportional chart"),
           Rec("SUNBURST", 55, "Nested category breakdown")>>
    ELSE <<>>

ruleScatter(num) ==
    IF num >= 2
    THEN <<Rec("SCATTER", 85, "Correlation between two measures")>>
         \o (IF num >= 3
             THEN <<Rec("BUBBLE", 80, "Three-variable relationship")>>
             ELSE <<>>)
    ELSE <<>>

\* faulty variant of ruleRadar: fires from two numeric columns on
ruleRadar_TwoMeasures(cat, num) ==
    IF cat >= 1 /\ num >= 2
    THEN <<Rec("RADAR", 72, "Multi-metric profile comparison"),
           Rec("RADIAL_BAR", 60, "Radial metric comparison")>>
    ELSE <<>>

ruleRadar(cat, num) ==
    IF cat >= 1 /\ num >= 3
    THEN <<Rec("RADAR", 72, "Multi-metric profile comparison"),
           Rec("RADIAL_BAR", 60, "Radial metric comparison")>>
    ELSE <<>>

ruleCombos(cat, num) ==
    IF cat >= 1 /\ num >= 2
    THEN <<Rec("COMBO_BAR_LINE", 82, "Compare bar + trend line"),
           Rec("COMBO_AREA_LINE", 70, "Area + line overlay")>>
    ELSE <<>>

ruleKpi(num) ==
    IF num >= 1
    THEN <<Rec("KPI_SINGLE", 60, "Display a single key metric"),
           Rec("GAUGE", 55, "Gauge indicator for a metric"),
           Rec("SPARKLINE", 50, "Compact inline trend")>>
    ELSE <<>>

ruleHeatmap(cat, num) ==
    IF cat >= 2 /\ num >= 1
    THEN <<Rec("HEATMAP", 75, "Density of values in a matrix")>>
    ELSE <<>>

\* faulty variant of ruleTable: the table entry is not added
ruleTable_Omitted == <<>>

ruleTable == <<Rec("TABLE", 40, "Raw data table view")>>

\* the scores array after every rule has run
scoresOf(cat, num, date) ==
    ruleBars(cat, num) \o ruleTimeSeries(date, num) \o ruleCategoryLines(cat, num)
    \o rulePartToWhole(cat, num) \o ruleScatter(num) \o ruleRadar(cat, num)
    \o ruleCombos(cat, num) \o ruleKpi(num) \o ruleHeatmap(cat, num) \o ruleTable

\* deduped: a plain object keyed by chart type, kept as the list of its
\* values in key insertion order; assigning to an existing key keeps its place
\* faulty variant of dedupe: a later entry of a type always replaces the
\* earlier one
RECURSIVE dedupe_KeepLast(_, _, _)
dedupe_KeepLast(deduped, scores, i) ==
    IF i > Len(scores) THEN deduped
    ELSE LET sc   == scores[i]
             at   == {k \in 1..Len(deduped) : deduped[k].type = sc.type}
         IN  dedupe_KeepLast(
                IF at = {} THEN Append(deduped, sc)
                ELSE [k \in 1..Len(deduped) |->
                        IF k \in at THEN sc ELSE deduped[k]],
                scores, i + 1)

RECURSIVE dedupe(_, _, _)
dedupe(deduped, scores, i) ==
    IF i > Len(scores) THEN deduped
    ELSE LET sc   == scores[i]
             at   == {k \in 1..Len(deduped) : deduped[k].type = sc.type}
         IN  dedupe(
                IF at = {} THEN Append(deduped, sc)
                ELSE IF \E k \in at : deduped[k].score < sc.score
                THEN [k \in 1..Len(deduped) |->
                        IF k \in at THEN sc ELSE deduped[k]]
                ELSE deduped,
                scores, i + 1)

\* Array.prototype.sort((a, b) => b.score - a.score): stable, so entries
\* with equal scores keep their order
\* faulty variant of insertByScore: an entry goes before the entries of
\* equal score, so ties come out reversed
RECURSIVE insertByScore_TiesReversed(_, _)
insertByScore_TiesReversed(sorted, e) ==
    IF sorted = <<>> THEN <<e>>
    ELSE IF sorted[Len(sorted)].score > e.score THEN Append(sorted, e)
    ELSE Append(insertByScore_TiesReversed(SubSeq(sorted, 1, Len(sorted) - 1), e),
                sorted[Len(sorted)])

RECURSIVE insertByScore(_, _)
insertByScore(sorted, e) ==
    IF sorted = <<>> THEN <<e>>
    ELSE IF sorted[Len(sorted)].score >= e.score THEN Append(sorted, e)
    ELSE Append(insertByScore(SubSeq(sorted, 1, Len(sorted) - 1), e),
                sorted[Len(sorted)])

RECURSIVE sortByScore(_, _, _)
sortByScore(sorted, list, i) ==
    IF i > Len(list) THEN sorted
    ELSE sortByScore(insertByScore(sorted, list[i]), list, i + 1)

recommendCharts(cols, dim, ms) ==
    LET scores == scoresOf(effectiveCategorical(cols, dim),
                           effectiveNumeric(cols, ms),
                           effectiveDate(cols))
    IN  sortByScore(<<>>, dedupe(<<>>, scores, 1), 1)

(***************************************************************************)
(* suggestJoinKeys (src/services/dataMerger.js).  Column names are         *)
(* sequences of characters here, since the function looks inside them.     *)
(***************************************************************************)
\* name.replace(/[_\s-]/g, '')
stripSeparators(s) ==
    SelectSeq(s, LAMBDA ch : ~(ch = "_" \/ ch = "-" \/ IsWhitespace(ch)))

cleanName(name) == stripSeparators(toLowerCase(name))

\* a.includes(b)
includes(a, b) ==
    \E i \in 0..(Len(a) - Len(b)) : SubSeq(a, i + 1, i + Len(b)) = b

\* s.slice(0, n)
slice0(s, n) == SubSeq(s, 1, IF Len(s) < n THEN Len(s) ELSE n)

Suggestion(lc, rc, confidence) ==
    [leftKey |-> lc.name, rightKey |-> rc.name, confidence |-> confidence]

\* faulty variant of suggestPair: the shared-prefix rule does not compare
\* the declared types
suggestPair_TypeBlind(lc, rc) ==
    LET ln == cleanName(lc.name)
        rn == cleanName(rc.name)
    IN  IF ln = rn THEN <<Suggestion(lc, rc, 100)>>
        ELSE IF includes(ln, rn) \/ includes(rn, ln)
        THEN <<Suggestion(lc, rc, 60)>>
        ELSE IF slice0(ln, 3) = slice0(rn, 3) /\ Len(ln) > 3
        THEN <<Suggestion(lc, rc, 30)>>
        ELSE <<>>

\* faulty variant of suggestPair: only the left name is searched for the
\* right one
suggestPair_LeftIncludesOnly(lc, rc) ==
    LET ln == cleanName(lc.name)
        rn == cleanName(rc.name)
    IN  IF ln = rn THEN <<Suggestion(lc, rc, 100)>>
        ELSE IF includes(ln, rn)
        THEN <<Suggestion(lc, rc, 60)>>
        ELSE IF lc.type = rc.type /\ slice0(ln, 3) = slice0(rn, 3) /\ Len(ln) > 3
        THEN <<Suggestion(lc, rc, 30)>>
        ELSE <<>>

\* the body of the inner forEach: the suggestions pushed for one pair
suggestPair(lc, rc) ==
    LET ln == cleanName(lc.name)
        rn == cleanName(rc.name)
    IN  IF ln = rn THEN <<Suggestion(lc, rc, 100)>>
        ELSE IF includes(ln, rn) \/ includes(rn, ln)
        THEN <<Suggestion(lc, rc, 60)>>
        ELSE IF lc.type = rc.type /\ slice0(ln, 3) = slice0(rn, 3) /\ Len(ln) > 3
        THEN <<Suggestion(lc, rc, 30)>>
        ELSE <<>>

RECURSIVE suggestRow(_, _, _)
suggestRow(lc, rCols, j) ==
    IF j > Len(rCols) THEN <<>>
    ELSE suggestPair(lc, rCols[j]) \o suggestRow(lc, rCols, j + 1)

RECURSIVE suggestAll(_, _, _)
suggestAll(lCols, rCols, i) ==
    IF i > Len(lCols) THEN <<>>
    ELSE suggestRow(lCols[i], rCols, 1) \o suggestAll(lCols, rCols, i + 1)

\* Array.prototype.sort((a, b) => b.confidence - a.confidence): stable
\* faulty variant of insertByConfidence: the comparison is the other way
\* round, so the list comes out ascending
RECURSIVE insertByConfidence_Ascending(_, _)
insertByConfidence_Ascending(sorted, e) ==
    IF sorted = <<>> THEN <<e>>
    ELSE IF sorted[Len(sorted)].confidence <= e.confidence THEN Append(sorted, e)
    ELSE Append(insertByConfidence_Ascending(SubSeq(sorted, 1, Len(sorted) - 1), e),
                sorted[Len(sorted)])

RECURSIVE insertByConfidence(_, _)
insertByConfidence(sorted, e) ==
    IF sorted = <<>> THEN <<e>>
    ELSE IF sorted[Len(sorted)].confidence >= e.confidence THEN Append(sorted, e)
    ELSE Append(insertByConfidence(SubSeq(sorted, 1, Len(sorted) - 1), e),
                sorted[Len(sorted)])

RECURSIVE sortByConfidence(_, _, _)
sortByConfidence(sorted, list, i) ==
    IF i > Len(list) THEN sorted
    ELSE sortByConfidence(insertByConfidence(sorted, list[i]), list, i + 1)

suggestJoinKeys(lCols, rCols) ==
    sortByConfidence(<<>>, suggestAll(lCols, rCols, 1), 1)

(***************************************************************************)
(* handleFileUpload (src/components/DataSourceView.jsx): a file is a       *)
(* header line and data lines, each line the list of its comma-separated   *)
(* fields.                                                                 *)
(***************************************************************************)
Quote == "\""

\* s.replace(/^"|"$/g, '')
stripQuotes(s) ==
    LET t == IF s # <<>> /\ Head(s) = Quote THEN Tail(s) ELSE s
    IN  IF t # <<>> /\ t[Len(t)] = Quote THEN SubSeq(t, 1, Len(t) - 1) ELSE t

\* values[i]?.trim().replace(/^"|"$/g, '')
cellText(values, i) ==
    IF i <= Len(values) THEN Str(stripQuotes(trim(values[i]))) ELSE Undefined

DigitValue(ch) == (CHOOSE k \in 1..Len(Digits) : Digits[k] = ch) - 1

IsDigit(ch) == \E k \in 1..Len(Digits) : Digits[k] = ch

RECURSIVE NumberOf(_, _, _)
NumberOf(s, i, acc) ==
    IF i > Len(s) THEN acc
    ELSE NumberOf(s, i + 1, 10 * acc + DigitValue(s[i]))

\* isNaN(Number(val)) on the texts of the model: a sequence of digits is a
\* number, the empty text is 0, anything else is NaN
isNaNNumber(val) ==
    val = Undefined \/ \E i \in 1..Len(val.s) : ~IsDigit(val.s[i])

\* isNaN(Number(val)) || val === "" ? val : Number(val)
cellValue(val) ==
    IF isNaNNumber(val) \/ val = Str(<<>>) THEN val
    ELSE Num(NumberOf(val.s, 1, 0))

\* headers.reduce((obj, header, i) => { obj[header] = ...; return obj }, {})
RECURSIVE parseRow(_, _, _, _)
parseRow(obj, headers, values, i) ==
    IF i > Len(headers) THEN obj
    ELSE parseRow(SetField(obj, headers[i], cellValue(cellText(values, i))),
                  headers, values, i + 1)

\* a line is dropped when it is empty once trimmed
lineIsEmpty(values) == Len(values) = 1 /\ trim(values[1]) = <<>>

\* typeof v === 'number'
typeofNumber(v) == v.t = "number"

\* typeof data[0][h] === 'number' ? 'number' : 'string'
columnType(data, header) ==
    IF typeofNumber(Get(data[1], header)) THEN "number" ELSE "string"

\* the dataset built from the lines, without its random id and file name
parseFile(headers, lines) ==
    LET kept == SelectSeq(lines, LAMBDA values : ~lineIsEmpty(values))
        data == [r \in 1..Len(kept) |-> parseRow(EmptyRow, headers, kept[r], 1)]
    IN  [columns |-> [i \in 1..Len(headers) |->
                        [name |-> headers[i],
                         type |-> columnType(data, headers[i])]],
         data    |-> data]

\* data[0][h] throws when the file has no data line
parseThrows(lines) == \A r \in 1..Len(lines) : lineIsEmpty(lines[r])

(***************************************************************************)
(* Inputs.                                                                 *)
(***************************************************************************)
JoinTypes == {"inner", "left", "right", "full", "append"}

Col(name, type) == [name |-> name, type |-> type]

SeqsUpTo(S, n) == UNION {[1..k -> S] : k \in 0..n}

\* (a) row-shaped inputs: a fixed pair of schemas joined on id, any rows
RowKeyVals == {Null, Str(<<"a">>), Str(<<"A", " ">>), Str(<<"b">>)}

IdLeftColumns  == <<Col("id", "number"), Col("name", "string")>>
IdRightColumns == <<Col("id", "number"), Col("val", "number")>>

IdLeftRows(keys) ==
    [i \in 1..Len(keys) |-> [id |-> keys[i], name |-> Str(<<"n", Digits[i + 1]>>)]]
IdRightRows(keys) ==
    [i \in 1..Len(keys) |-> [id |-> keys[i], val |-> Num(10 * i)]]

InitRows ==
    /\ leftColumns = IdLeftColumns
    /\ rightColumns = IdRightColumns
    /\ leftKey = "id"
    /\ rightKey = "id"
    /\ \E lk \in SeqsUpTo(RowKeyVals, MaxRows), rk \in SeqsUpTo(RowKeyVals, MaxRows) :
          /\ leftData = IdLeftRows(lk)
          /\ rightData = IdRightRows(rk)

\* (b) key-shaped inputs: one row on each side, any pair of key values
KeyVals ==
    { Null, Num(1), Num(12), Str(<<"1">>), Str(<<" ", "1", "\t">>),
      Str(<<"F", "o", "o", " ">>), Str(<<"f", "o", "o">>), Str(<<"f", " ", "o">>),
      Str(<<>>), Str(<<" ">>),
      Str(NullSentinel), Str(<<"_", "_", "n", "u", "l", "l", "_", "_">>) }

InitKeys ==
    /\ leftColumns = IdLeftColumns
    /\ rightColumns = IdRightColumns
    /\ leftKey = "id"
    /\ rightKey = "id"
    /\ \E lv \in KeyVals, rv \in KeyVals :
          /\ leftData = IdLeftRows(<<lv>>)
          /\ rightData = IdRightRows(<<rv>>)

\* (c) schema-shaped inputs: any two lists of distinct column names, each
\*     joined on one of its own columns, one row on each side
Names == <<"", "a", "a_right", "k">>
NameSet == {Names[i] : i \in 1..Len(Names)}
NameIx(n) == CHOOSE i \in 1..Len(Names) : Names[i] = n

\* a header line always yields at least one column
NameLists ==
    {s \in SeqsUpTo(NameSet, MaxCols) :
        Len(s) >= 1 /\ \A i, j \in 1..Len(s) : i # j => s[i] # s[j]}

SchemaOf(names, type) == [i \in 1..Len(names) |-> Col(names[i], type)]

SchemaRow(names, key, keyVal, base) ==
    [n \in {names[i] : i \in 1..Len(names)} |->
        IF n = key THEN keyVal ELSE Num(base + NameIx(n))]

InitCols ==
    \E ln \in NameLists, rn \in NameLists :
      \E li \in 1..Len(ln), ri \in 1..Len(rn), rv \in {Str(<<"x">>), Str(<<"y">>)} :
        /\ leftColumns = SchemaOf(ln, "string")
        /\ rightColumns = SchemaOf(rn, "number")
        /\ leftKey = ln[li]
        /\ rightKey = rn[ri]
        /\ leftData = <<SchemaRow(ln, ln[li], Str(<<"X", " ">>), 0)>>
        /\ rightData = <<SchemaRow(rn, rn[ri], rv, 10)>>

\* (d) key names that may be absent from the schemas
LeftKeyNames  == {"id", "name", "zz"}
RightKeyNames == {"id", "val", "zz"}

InitKeyNames ==
    /\ leftColumns = IdLeftColumns
    /\ rightColumns = IdRightColumns
    /\ leftKey \in LeftKeyNames
    /\ rightKey \in RightKeyNames
    /\ \E lv \in {Null, Str(<<"a">>)}, rv \in {Null, Str(<<"a">>)} :
          /\ leftData = IdLeftRows(<<lv>>)
          /\ rightData = IdRightRows(<<rv>>)

\* no call of recommendCharts is under way
RecIdle ==
    /\ columns = <<>>
    /\ dimension = Undefined
    /\ measures = Undefined
    /\ recs = <<>>
    /\ rpc = "idle"

\* no call of suggestJoinKeys is under way
SugIdle ==
    /\ sugLeftCols = <<>>
    /\ sugRightCols = <<>>
    /\ suggestions = <<>>
    /\ spc = "idle"

\* no upload is under way
UpIdle ==
    /\ fileHeaders = <<>>
    /\ fileRows = <<>>
    /\ ingested = Null
    /\ upc = "idle"

\* the App holds nothing and the merge dialog is not mounted
AppIdle ==
    /\ datasets = <<>>
    /\ selectedDatasetId = ""
    /\ showMerger = FALSE
    /\ pages = <<>>
    /\ activePageId = ""
    /\ charts = <<>>
    /\ activeChartId = Null
    /\ view = "data"
    /\ showNewChartPrompt = FALSE
    /\ now = 0

DlgIdle ==
    /\ leftId = ""
    /\ rightId = ""
    /\ dlgJoinType = "inner"
    /\ keyPairs = <<>>
    /\ mergedName = <<>>
    /\ previewData = Null
    /\ error = ""
    /\ step = 0

Init ==
    /\ InitRows \/ InitKeys \/ InitCols \/ InitKeyNames
    /\ joinType \in JoinTypes
    /\ result = Null
    /\ emitted = <<>>
    /\ pc = "ready"
    /\ RecIdle
    /\ SugIdle
    /\ UpIdle
    /\ AppIdle
    /\ DlgIdle

(***************************************************************************)
(* The call.                                                               *)
(***************************************************************************)
\* faulty variant of Merge: appendDatasets pushes the new right columns
\* onto leftColumns itself instead of onto a copy of it
Merge_PushesOntoLeft ==
    /\ pc = "ready"
    /\ result' = mergeDatasets(leftData, rightData, leftColumns, rightColumns,
                               leftKey, rightKey, joinType)
    /\ emitted' = mergeSources(leftData, rightData, leftKey, rightKey, joinType)
    /\ pc' = "done"
    /\ leftColumns' = IF joinType = "append" THEN result'.columns ELSE leftColumns
    /\ UNCHANGED <<leftData, rightData, rightColumns, leftKey, rightKey, joinType>>
    /\ UNCHANGED <<recVars, sugVars, upVars, appVars, dlgVars>>

Merge ==
    /\ pc = "ready"
    /\ result' = mergeDatasets(leftData, rightData, leftColumns, rightColumns,
                               leftKey, rightKey, joinType)
    /\ emitted' = mergeSources(leftData, rightData, leftKey, rightKey, joinType)
    /\ pc' = "done"
    /\ UNCHANGED inputs
    /\ UNCHANGED <<recVars, sugVars, upVars, appVars, dlgVars>>

Next == Merge

SpecMerge == Init /\ [][Next]_vars

(***************************************************************************)
(* The call of recommendCharts, on any column list of up to MaxRecCols     *)
(* columns, any dimension and any measures list of up to MaxMeasures.      *)
(***************************************************************************)
ColumnTypes == {"number", "string", "date", "boolean"}

ColumnName(i) == "c" \o Digits[i + 1]
MeasureName(i) == "m" \o Digits[i + 1]

RecColumnLists ==
    {[i \in 1..Len(ts) |-> Col(ColumnName(i), ts[i])] :
        ts \in SeqsUpTo(ColumnTypes, MaxRecCols)}

Dimensions == {Undefined, Str(<<>>), Str(<<"c", "1">>)}

MeasureLists ==
    {Undefined} \cup {List([i \in 1..k |-> MeasureName(i)]) : k \in 0..MaxMeasures}

\* no call of mergeDatasets is under way
MergeIdle ==
    /\ leftData = <<>>
    /\ rightData = <<>>
    /\ leftColumns = <<>>
    /\ rightColumns = <<>>
    /\ leftKey = ""
    /\ rightKey = ""
    /\ joinType = "inner"
    /\ result = Null
    /\ emitted = <<>>
    /\ pc = "idle"

InitRec ==
    /\ MergeIdle
    /\ SugIdle
    /\ UpIdle
    /\ AppIdle
    /\ DlgIdle
    /\ columns \in RecColumnLists
    /\ dimension \in Dimensions
    /\ measures \in MeasureLists
    /\ recs = <<>>
    /\ rpc = "ready"

Recommend ==
    /\ rpc = "ready"
    /\ recs' = recommendCharts(columns, dimension, measures)
    /\ rpc' = "done"
    /\ UNCHANGED <<columns, dimension, measures>>
    /\ UNCHANGED <<mergeVars, sugVars, upVars, appVars, dlgVars>>

NextRec == Recommend

SpecRec == InitRec /\ [][NextRec]_vars

(***************************************************************************)
(* The call of suggestJoinKeys, on any two column lists of up to           *)
(* MaxSugCols columns drawn from SugColumns.                               *)
(***************************************************************************)
SugColumns ==
    { Col(<<"A", "b">>, "string"),
      Col(<<"a", "_", "b">>, "number"),
      Col(<<"a", "-", "b", " ", "F">>, "number"),
      Col(<<"a", "b", "f", "l">>, "number"),
      Col(<<"a", "b", "f", "n">>, "number"),
      Col(<<"A", "B", "F", "N", "X">>, "string"),
      Col(<<>>, "string") }

SugColumnLists == SeqsUpTo(SugColumns, MaxSugCols)

InitSug ==
    /\ MergeIdle
    /\ RecIdle
    /\ UpIdle
    /\ AppIdle
    /\ DlgIdle
    /\ sugLeftCols \in SugColumnLists
    /\ sugRightCols \in SugColumnLists
    /\ suggestions = <<>>
    /\ spc = "ready"

Suggest ==
    /\ spc = "ready"
    /\ suggestions' = suggestJoinKeys(sugLeftCols, sugRightCols)
    /\ spc' = "done"
    /\ UNCHANGED <<sugLeftCols, sugRightCols>>
    /\ UNCHANGED <<mergeVars, recVars, upVars, appVars, dlgVars>>

NextSug == Suggest

SpecSug == InitSug /\ [][NextSug]_vars

(***************************************************************************)
(* The upload of a file with one or two columns and up to MaxFileRows data *)
(* lines; a line may lack its last field.                                  *)
(***************************************************************************)
DateText == <<"2", "0", "2", "4", "-", "0", "1", "-", "0", "5">>

FileFields == { <<" ", "7">>, <<Quote, "a", Quote>>, <<>>, DateText }

FileHeaderLists == { <<"x">>, <<"x", "y">>, <<"x", "x">> }

FileLines(n) == UNION {[1..k -> FileFields] : k \in {m \in {n - 1, n} : m >= 1}}

InitUpload ==
    /\ MergeIdle
    /\ RecIdle
    /\ SugIdle
    /\ AppIdle
    /\ DlgIdle
    /\ fileHeaders \in FileHeaderLists
    /\ fileRows \in SeqsUpTo(FileLines(Len(fileHeaders)), MaxFileRows)
    /\ ingested = Null
    /\ upc = "ready"

\* the try block of reader.onload
Upload ==
    /\ upc = "ready"
    /\ ~parseThrows(fileRows)
    /\ ingested' = parseFile(fileHeaders, fileRows)
    /\ upc' = "done"
    /\ UNCHANGED <<fileHeaders, fileRows>>
    /\ UNCHANGED <<mergeVars, recVars, sugVars, appVars, dlgVars>>

\* the catch block: nothing is added
UploadFails ==
    /\ upc = "ready"
    /\ parseThrows(fileRows)
    /\ upc' = "failed"
    /\ UNCHANGED <<fileHeaders, fileRows, ingested>>
    /\ UNCHANGED <<mergeVars, recVars, sugVars, appVars, dlgVars>>

NextUpload == Upload \/ UploadFails

SpecUpload == InitUpload /\ [][NextUpload]_vars

(***************************************************************************)
(* Any one call of the three services.                                     *)
(***************************************************************************)
InitCalls == Init \/ InitRec \/ InitSug

NextCalls == Merge \/ Recommend \/ Suggest

SpecCalls == InitCalls /\ [][NextCalls]_vars

(***************************************************************************)
(* The merge dialog (DataMerger, src/unnamed/part_001) and the App's       *)
(* onMergeComplete (src/README.md).  The dialog is mounted on two          *)
(* datasets; its controls are those of the step it shows.                  *)
(***************************************************************************)
Dataset(id, name, cols, data) ==
    [id |-> id, name |-> name, columns |-> cols, data |-> data, meta |-> Undefined]

DatasetA ==
    Dataset("d1", <<"A">>, <<Col("id", "number"), Col("k", "string")>>,
            << [id |-> Num(1), k |-> Str(<<"a">>)] >>)

DatasetB ==
    Dataset("d2", <<"B">>, <<Col("k", "string")>>,
            << [k |-> Str(<<"b">>)],
               [k |-> Str(<<"a">>)] >>)

\* the ids Math.random().toString(36).substr(2, 9) may give a new dataset
NewDatasetIds == {"d1", "d3"}

\* the characters of the column names of the two datasets
NameChars(name) == IF name = "id" THEN <<"i", "d">> ELSE <<name>>
NameOfChars(chars) == IF chars = <<"i", "d">> THEN "id" ELSE chars[1]

\* datasets.find(d => d.id === id), Undefined when there is none
findDataset(list, id) ==
    IF \E i \in 1..Len(list) : list[i].id = id
    THEN list[CHOOSE i \in 1..Len(list) :
                /\ list[i].id = id
                /\ \A h \in 1..(i - 1) : list[h].id # id]
    ELSE Undefined

leftDs  == findDataset(datasets, leftId)
rightDs == findDataset(datasets, rightId)

isAppend == dlgJoinType = "append"

KeyPair(lk, rk) == [leftKey |-> lk, rightKey |-> rk]

canPreview ==
    /\ leftDs # Undefined
    /\ rightDs # Undefined
    /\ leftId # rightId
    /\ \/ isAppend
       \/ \A i \in 1..Len(keyPairs) :
             keyPairs[i].leftKey # "" /\ keyPairs[i].rightKey # ""

\* the call of mergeDatasets in runPreview, with keyPairs[0]?.leftKey || ''
\* and keyPairs[0]?.rightKey || ''
mergeOfSelection ==
    mergeDatasets(leftDs.data, rightDs.data, leftDs.columns, rightDs.columns,
                  IF keyPairs = <<>> THEN "" ELSE keyPairs[1].leftKey,
                  IF keyPairs = <<>> THEN "" ELSE keyPairs[1].rightKey,
                  dlgJoinType)

\* the suggestions shown: suggestions.slice(0, 5), as key pairs
shownSuggestions ==
    IF leftDs = Undefined \/ rightDs = Undefined THEN <<>>
    ELSE LET chars(cols) == [i \in 1..Len(cols) |->
                                Col(NameChars(cols[i].name), cols[i].type)]
             all == suggestJoinKeys(chars(leftDs.columns), chars(rightDs.columns))
             n   == IF Len(all) < 5 THEN Len(all) ELSE 5
         IN  [i \in 1..n |-> KeyPair(NameOfChars(all[i].leftKey),
                                     NameOfChars(all[i].rightKey))]

\* the options of a dataset selector: none, or a dataset other than the
\* one selected on the other side
selectorOptions(excludeId) ==
    {""} \cup {datasets[i].id : i \in {h \in 1..Len(datasets) : datasets[h].id # excludeId}}

\* the options of a key select: none, or a column of the dataset
keyOptions(ds) == {""} \cup ColNames(ds.columns)

configShown == showMerger /\ step = 1
keysShown == configShown /\ ~isAppend /\ leftDs # Undefined /\ rightDs # Undefined

dialogUnmounted ==
    /\ leftId' = ""
    /\ rightId' = ""
    /\ dlgJoinType' = "inner"
    /\ keyPairs' = <<>>
    /\ mergedName' = <<>>
    /\ previewData' = Null
    /\ error' = ""
    /\ step' = 0

\* the rest of the App and the service calls are not touched by the dialog
dialogFrame ==
    UNCHANGED <<pages, activePageId, charts, activeChartId, view,
                showNewChartPrompt, now, callVars>>

InitDialog ==
    /\ MergeIdle
    /\ RecIdle
    /\ SugIdle
    /\ UpIdle
    /\ datasets = <<DatasetA, DatasetB>>
    /\ selectedDatasetId = ""
    /\ showMerger = TRUE
    /\ pages = <<>>
    /\ activePageId = ""
    /\ charts = <<>>
    /\ activeChartId = Null
    /\ view = "data"
    /\ showNewChartPrompt = FALSE
    /\ now = 0
    /\ leftId = datasets[1].id
    /\ rightId = datasets[2].id
    /\ dlgJoinType = "inner"
    /\ keyPairs = <<KeyPair("", "")>>
    /\ mergedName = <<>>
    /\ previewData = Null
    /\ error = ""
    /\ step = 1

SetLeftId ==
    /\ configShown
    /\ \E id \in selectorOptions(rightId) : leftId' = id
    /\ UNCHANGED <<rightId, dlgJoinType, keyPairs, mergedName, previewData, error, step>>
    /\ UNCHANGED <<datasets, selectedDatasetId, showMerger>>
    /\ dialogFrame

SetRightId ==
    /\ configShown
    /\ \E id \in selectorOptions(leftId) : rightId' = id
    /\ UNCHANGED <<leftId, dlgJoinType, keyPairs, mergedName, previewData, error, step>>
    /\ UNCHANGED <<datasets, selectedDatasetId, showMerger>>
    /\ dialogFrame

\* faulty variant of SetJoinType: the join type buttons are shown in the
\* preview step as well
SetJoinType_AnyStep ==
    /\ showMerger
    /\ \E jt \in JoinTypes : dlgJoinType' = jt
    /\ UNCHANGED <<leftId, rightId, keyPairs, mergedName, previewData, error, step>>
    /\ UNCHANGED <<datasets, selectedDatasetId, showMerger>>
    /\ dialogFrame

SetJoinType ==
    /\ configShown
    /\ \E jt \in JoinTypes : dlgJoinType' = jt
    /\ UNCHANGED <<leftId, rightId, keyPairs, mergedName, previewData, error, step>>
    /\ UNCHANGED <<datasets, selectedDatasetId, showMerger>>
    /\ dialogFrame

applySuggestion ==
    /\ keysShown
    /\ \E i \in 1..Len(shownSuggestions) : keyPairs' = <<shownSuggestions[i]>>
    /\ UNCHANGED <<leftId, rightId, dlgJoinType, mergedName, previewData, error, step>>
    /\ UNCHANGED <<datasets, selectedDatasetId, showMerger>>
    /\ dialogFrame

addKeyPair ==
    /\ keysShown
    /\ Len(keyPairs) < MaxKeyPairs
    /\ keyPairs' = Append(keyPairs, KeyPair("", ""))
    /\ UNCHANGED <<leftId, rightId, dlgJoinType, mergedName, previewData, error, step>>
    /\ UNCHANGED <<datasets, selectedDatasetId, showMerger>>
    /\ dialogFrame

removeKeyPair ==
    /\ keysShown
    /\ Len(keyPairs) > 1
    /\ \E idx \in 1..Len(keyPairs) :
          keyPairs' = [i \in 1..(Len(keyPairs) - 1) |->
                          IF i < idx THEN keyPairs[i] ELSE keyPairs[i + 1]]
    /\ UNCHANGED <<leftId, rightId, dlgJoinType, mergedName, previewData, error, step>>
    /\ UNCHANGED <<datasets, selectedDatasetId, showMerger>>
    /\ dialogFrame

updateKeyPair ==
    /\ keysShown
    /\ \E idx \in 1..Len(keyPairs) :
          \/ \E value \in keyOptions(leftDs) :
                keyPairs' = [keyPairs EXCEPT ![idx].leftKey = value]
          \/ \E value \in keyOptions(rightDs) :
                keyPairs' = [keyPairs EXCEPT ![idx].rightKey = value]
    /\ UNCHANGED <<leftId, rightId, dlgJoinType, mergedName, previewData, error, step>>
    /\ UNCHANGED <<datasets, selectedDatasetId, showMerger>>
    /\ dialogFrame

\* mergeDatasets returns for every input, so the catch branch is never taken
runPreview ==
    /\ configShown
    /\ canPreview
    /\ error' = ""
    /\ previewData' = mergeOfSelection
    /\ step' = 2
    /\ UNCHANGED <<leftId, rightId, dlgJoinType, keyPairs, mergedName>>
    /\ UNCHANGED <<datasets, selectedDatasetId, showMerger>>
    /\ dialogFrame

Back ==
    /\ showMerger
    /\ step = 2
    /\ step' = 1
    /\ UNCHANGED <<leftId, rightId, dlgJoinType, keyPairs, mergedName, previewData, error>>
    /\ UNCHANGED <<datasets, selectedDatasetId, showMerger>>
    /\ dialogFrame

MergedNames == {<<>>, <<"M", " ">>}

SetMergedName ==
    /\ showMerger
    /\ step = 2
    /\ \E text \in MergedNames : mergedName' = text
    /\ UNCHANGED <<leftId, rightId, dlgJoinType, keyPairs, previewData, error, step>>
    /\ UNCHANGED <<datasets, selectedDatasetId, showMerger>>
    /\ dialogFrame

\* the dataset confirmMerge hands to onMergeComplete
mergedDataset(id) ==
    [id      |-> id,
     name    |-> IF trim(mergedName) # <<>> THEN trim(mergedName)
                 ELSE leftDs.name \o <<" ", "+", " ">> \o rightDs.name,
     columns |-> previewData.columns,
     data    |-> previewData.data,
     meta    |-> [merged |-> TRUE, leftSource |-> leftDs.name,
                  rightSource |-> rightDs.name, joinType |-> dlgJoinType]]

\* confirmMerge, then the App's onMergeComplete, which closes the dialog
confirmMerge ==
    /\ showMerger
    /\ step = 2
    /\ previewData # Null
    /\ \E id \in NewDatasetIds :
          /\ datasets' = Append(datasets, mergedDataset(id))
          /\ selectedDatasetId' = id
    /\ showMerger' = FALSE
    /\ dialogUnmounted
    /\ dialogFrame

\* onClose: Cancel or the X button
closeMerger ==
    /\ showMerger
    /\ showMerger' = FALSE
    /\ dialogUnmounted
    /\ UNCHANGED <<datasets, selectedDatasetId>>
    /\ dialogFrame

NextDialog ==
    \/ SetLeftId
    \/ SetRightId
    \/ SetJoinType
    \/ applySuggestion
    \/ addKeyPair
    \/ removeKeyPair
    \/ updateKeyPair
    \/ runPreview
    \/ Back
    \/ SetMergedName
    \/ confirmMerge
    \/ closeMerger

SpecDialog == InitDialog /\ [][NextDialog]_vars

(***************************************************************************)
(* The App's pages and charts (src/README.md): the state after the mount   *)
(* effect, and the handlers of the page tabs and of the report canvas.     *)
(***************************************************************************)
\* the values Date.now() takes while the App is used; it never goes back
\* and may give the same value to two calls
Times == 2..(MaxPages + 1)

\* `page-${Date.now()}`
pageIdAt(time) == "page-" \o Digits[time + 1]

\* `Page ${pages.length + 1}`
pageName(n) == <<"P", "a", "g", "e", " ">> \o ToDigits(n)

PageIds(list) == {list[i].id : i \in 1..Len(list)}

\* the ids Math.random().toString(36).substr(2, 9) may give a new chart
NewChartIds == {"c1", "c2"}

\* the names typed into the new-visual prompt
ChartNames == {<<" ">>, <<"S">>}

\* datasets.find(d => d.id === selectedDatasetId) || datasets[0]
chartDataset ==
    IF findDataset(datasets, selectedDatasetId) # Undefined
    THEN findDataset(datasets, selectedDatasetId)
    ELSE IF datasets # <<>> THEN datasets[1] ELSE Undefined

\* dataset.columns.find(c => c.type === type)?.name || ''
firstColumnOfType(cols, type) ==
    LET of == SelectSeq(cols, LAMBDA c : c.type = type)
    IN  IF of = <<>> THEN "" ELSE of[1].name

newChart(id, name, dataset) ==
    LET dim     == firstColumnOfType(dataset.columns, "string")
        measure == firstColumnOfType(dataset.columns, "number")
        value(col) == IF col = "" THEN Str(<<>>) ELSE Str(NameChars(col))
        found   == recommendCharts(dataset.columns, value(dim),
                                   List(<<value(measure)>>))
    IN  [id        |-> id,
         pageId    |-> activePageId,
         datasetId |-> dataset.id,
         title     |-> IF trim(name) # <<>> THEN trim(name)
                       ELSE <<"N", "e", "w", " ", "V", "i", "s", "u", "a", "l">>,
         type      |-> IF Len(found) > 0 THEN found[1].type ELSE "BAR_CLUSTERED",
         dimension |-> dim,
         measures  |-> <<measure>>]

\* the dialog is not mounted and no service call is under way
appFrame == UNCHANGED <<showMerger, dlgVars, callVars>>

InitApp ==
    /\ MergeIdle
    /\ RecIdle
    /\ SugIdle
    /\ UpIdle
    /\ DlgIdle
    /\ \/ datasets = <<>> /\ selectedDatasetId = ""
       \/ datasets = <<DatasetA>> /\ selectedDatasetId = "d1"
       \/ datasets = <<DatasetA, DatasetB>> /\ selectedDatasetId = "d2"
    /\ showMerger = FALSE
    /\ pages = <<[id |-> "page-1", name |-> pageName(1)]>>
    /\ activePageId = "page-1"
    /\ charts = <<>>
    /\ activeChartId = Null
    /\ view = "data"
    /\ showNewChartPrompt = FALSE
    /\ now = 2

\* time passes between two events
Tick ==
    /\ now + 1 \in Times
    /\ now' = now + 1
    /\ UNCHANGED <<datasets, selectedDatasetId, pages, activePageId, charts,
                   activeChartId, view, showNewChartPrompt>>
    /\ appFrame

\* the Sidebar
SetView ==
    /\ \E v \in {"data", "report"} : view' = v
    /\ UNCHANGED <<datasets, selectedDatasetId, pages, activePageId, charts,
                   activeChartId, showNewChartPrompt, now>>
    /\ appFrame

handleAddPage ==
    /\ Len(pages) < MaxPages
    /\ pages' = Append(pages, [id |-> pageIdAt(now),
                                name |-> pageName(Len(pages) + 1)])
    /\ activePageId' = pageIdAt(now)
    /\ UNCHANGED <<datasets, selectedDatasetId, charts, activeChartId, view,
                   showNewChartPrompt, now>>
    /\ appFrame

\* the X of a page tab, rendered when there is more than one page; with no
\* page left, updatedPages[0].id throws after the two lists were set
handleRemovePage ==
    /\ Len(pages) > 1
    /\ \E id \in PageIds(pages) :
          LET updatedPages == SelectSeq(pages, LAMBDA p : p.id # id)
          IN  /\ pages' = updatedPages
              /\ charts' = SelectSeq(charts, LAMBDA c : c.pageId # id)
              /\ activePageId' = IF activePageId = id /\ updatedPages # <<>>
                                 THEN updatedPages[1].id
                                 ELSE activePageId
    /\ UNCHANGED <<datasets, selectedDatasetId, activeChartId, view,
                   showNewChartPrompt, now>>
    /\ appFrame

\* a page tab
SelectPage ==
    /\ \E id \in PageIds(pages) : activePageId' = id
    /\ view' = "report"
    /\ UNCHANGED <<datasets, selectedDatasetId, pages, charts, activeChartId,
                   showNewChartPrompt, now>>
    /\ appFrame

handleAddChart ==
    /\ view = "report"
    /\ datasets # <<>>
    /\ showNewChartPrompt' = IF chartDataset = Undefined \/ activePageId = ""
                             THEN showNewChartPrompt
                             ELSE TRUE
    /\ UNCHANGED <<datasets, selectedDatasetId, pages, activePageId, charts,
                   activeChartId, view, now>>
    /\ appFrame

handleConfirmNewChart ==
    /\ view = "report"
    /\ showNewChartPrompt
    /\ showNewChartPrompt' = FALSE
    /\ IF chartDataset = Undefined \/ activePageId = "" \/ Len(charts) >= MaxCharts
       THEN UNCHANGED <<charts, activeChartId>>
       ELSE \E id \in NewChartIds, name \in ChartNames :
               /\ charts' = Append(charts, newChart(id, name, chartDataset))
               /\ activeChartId' = Str(id)
    /\ UNCHANGED <<datasets, selectedDatasetId, pages, activePageId, view, now>>
    /\ appFrame

CancelNewChart ==
    /\ view = "report"
    /\ showNewChartPrompt
    /\ showNewChartPrompt' = FALSE
    /\ UNCHANGED <<datasets, selectedDatasetId, pages, activePageId, charts,
                   activeChartId, view, now>>
    /\ appFrame

\* a click on a chart of the current page
SelectChart ==
    /\ view = "report"
    /\ \E i \in 1..Len(charts) :
          /\ charts[i].pageId = activePageId
          /\ activeChartId' = Str(charts[i].id)
    /\ UNCHANGED <<datasets, selectedDatasetId, pages, activePageId, charts,
                   view, showNewChartPrompt, now>>
    /\ appFrame

\* the remove button of the selected chart of the current page
handleRemoveChart ==
    /\ view = "report"
    /\ \E i \in 1..Len(charts) :
          /\ charts[i].pageId = activePageId
          /\ Str(charts[i].id) = activeChartId
          /\ charts' = SelectSeq(charts, LAMBDA c : c.id # charts[i].id)
    /\ activeChartId' = Null
    /\ UNCHANGED <<datasets, selectedDatasetId, pages, activePageId, view,
                   showNewChartPrompt, now>>
    /\ appFrame

NextApp ==
    \/ Tick
    \/ SetView
    \/ handleAddPage
    \/ handleRemovePage
    \/ SelectPage
    \/ handleAddChart
    \/ handleConfirmNewChart
    \/ CancelNewChart
    \/ SelectChart
    \/ handleRemoveChart

SpecApp == InitApp /\ [][NextApp]_vars

(***************************************************************************)
(* Vocabulary of the properties.                                           *)
(***************************************************************************)
Done   == pc = "done"
IsJoin == joinType \in {"inner", "left", "right", "full"}

LeftIx  == 1..Len(leftData)
RightIx == 1..Len(rightData)
OutIx   == 1..Len(emitted)

LeftKeyAt(i)  == normalizeKey(Get(leftData[i], leftKey))
RightKeyAt(j) == normalizeKey(Get(rightData[j], rightKey))
KeysEqual(i, j) == LeftKeyAt(i) = RightKeyAt(j)

\* m(l): the number of right rows whose normalized key equals that of left row i
MatchCount(i) == Cardinality({j \in RightIx : KeysEqual(i, j)})
LeftUnmatched(i)  == \A j \in RightIx : ~KeysEqual(i, j)
RightUnmatched(j) == \A i \in LeftIx : ~KeysEqual(i, j)

\* the output positions built from left row i / right row j
RowsOfLeft(i)  == {k \in OutIx : emitted[k].l = i}
RowsOfRight(j) == {k \in OutIx : emitted[k].r = j}
RowsOfPair(i, j) == {k \in OutIx : emitted[k] = [l |-> i, r |-> j]}

\* the name a right column is expected to have in the result
MergedName(c) ==
    IF c.name \in ColNames(leftColumns) THEN c.name \o "_right" ELSE c.name

NonKeyRight == {c \in 1..Len(rightColumns) : rightColumns[c].name # rightKey}

HoldsLeftValues(k, i) ==
    \A c \in 1..Len(leftColumns) :
        Get(result.data[k], leftColumns[c].name)
            = Coalesce(Get(leftData[i], leftColumns[c].name))

HoldsRightValues(k, j) ==
    \A c \in NonKeyRight :
        Get(result.data[k], MergedName(rightColumns[c]))
            = Coalesce(Get(rightData[j], rightColumns[c].name))

LeftColsNull(k) ==
    \A c \in 1..Len(leftColumns) :
        Get(result.data[k], leftColumns[c].name) = Null

RightColsNull(k) ==
    \A c \in NonKeyRight :
        Get(result.data[k], MergedName(rightColumns[c])) = Null

Distinct(cols) ==
    \A i, j \in 1..Len(cols) : i # j => cols[i].name # cols[j].name

\* the result's row list stands in one-to-one correspondence with emitted
DataMatchesSources == Done => Len(result.data) = Len(emitted)

\* the merged column names are pairwise distinct and every renamed column
\* has a non-empty original name: the rows are then free of overwrites
NoNameClash ==
    /\ Distinct(leftColumns \o renamedRightCols(leftColumns, rightColumns, rightKey))
    /\ \A c \in NonKeyRight : rightColumns[c].name # ""

(***************************************************************************)
(* C1: in an inner, left, right or full join there is exactly one output   *)
(* row for every pair (left row, right row) with equal normalized keys and *)
(* none for any other pair; these rows are ordered by the left row's       *)
(* position and then by the right row's position; and each holds the left  *)
(* row's value in every left column and the right row's value in every     *)
(* non-key right column.                                                   *)
(***************************************************************************)
C1_PairCounts ==
    \A i \in LeftIx, j \in RightIx :
        Cardinality(RowsOfPair(i, j)) = IF KeysEqual(i, j) THEN 1 ELSE 0

C1_PairOrder ==
    \A k1, k2 \in OutIx :
        (k1 < k2 /\ emitted[k1].l # 0 /\ emitted[k1].r # 0
                 /\ emitted[k2].l # 0 /\ emitted[k2].r # 0)
        => \/ emitted[k1].l < emitted[k2].l
           \/ emitted[k1].l = emitted[k2].l /\ emitted[k1].r < emitted[k2].r

C1_PairValues ==
    \A k \in OutIx :
        (emitted[k].l # 0 /\ emitted[k].r # 0)
        => HoldsLeftValues(k, emitted[k].l) /\ HoldsRightValues(k, emitted[k].r)

\* C1: one row per key-equal pair, in (left, right) order, holding both
\* rows' values
C1_MatchedRows ==
    (Done /\ IsJoin) => C1_PairCounts /\ C1_PairOrder /\ C1_PairValues

\* C1 on the inputs whose merged column names do not clash
C1_MatchedRowsNoClash ==
    (Done /\ IsJoin /\ NoNameClash)
    => C1_PairCounts /\ C1_PairOrder /\ C1_PairValues

C1_Structure == (Done /\ IsJoin) => C1_PairCounts /\ C1_PairOrder

(***************************************************************************)
(* C2: a left row whose normalized key equals the key of no right row      *)
(* gets no output row in an inner join and exactly one in a left or full   *)
(* join, at its position in left-row order, holding the left row's values  *)
(* in the left columns and null in every right-side column.                *)
(***************************************************************************)
C2_LeftRowOrder ==
    \A k1, k2 \in OutIx :
        (k1 < k2 /\ emitted[k1].l # 0 /\ emitted[k2].l # 0)
        => emitted[k1].l <= emitted[k2].l

C2_Counts ==
    \A i \in LeftIx :
        LeftUnmatched(i) =>
            /\ joinType = "inner" => RowsOfLeft(i) = {}
            /\ joinType \in {"left", "full"} =>
                 /\ Cardinality(RowsOfLeft(i)) = 1
                 /\ \A k \in RowsOfLeft(i) : emitted[k].r = 0

C2_Values ==
    \A i \in LeftIx :
        (LeftUnmatched(i) /\ joinType \in {"left", "full"}) =>
            \A k \in RowsOfLeft(i) : HoldsLeftValues(k, i) /\ RightColsNull(k)

\* C2: an unmatched left row gives no row (inner) or one row with null
\* right-side columns (left, full)
C2_UnmatchedLeft ==
    (Done /\ IsJoin) => C2_Counts /\ C2_LeftRowOrder /\ C2_Values

\* C2 on the inputs whose merged column names do not clash
C2_UnmatchedLeftNoClash ==
    (Done /\ IsJoin /\ NoNameClash) => C2_Counts /\ C2_LeftRowOrder /\ C2_Values

C2_Structure == (Done /\ IsJoin) => C2_Counts /\ C2_LeftRowOrder

(***************************************************************************)
(* C3: in a right or full join the rows of the right rows whose key equals *)
(* the key of no left row come after all rows produced from left rows, in  *)
(* right-row order, exactly one each, with every left column null and      *)
(* every right-side field holding the right row's value; a right row whose *)
(* key was matched is never emitted as an unmatched row; inner and left    *)
(* joins emit no such rows.                                                *)
(***************************************************************************)
UnmatchedOut == {k \in OutIx : emitted[k].l = 0}

C3_Counts ==
    /\ joinType \in {"inner", "left"} => UnmatchedOut = {}
    /\ joinType \in {"right", "full"} =>
        \A j \in RightIx :
            Cardinality(RowsOfRight(j) \cap UnmatchedOut)
                = IF RightUnmatched(j) THEN 1 ELSE 0

C3_Order ==
    /\ \A k1 \in UnmatchedOut, k2 \in OutIx \ UnmatchedOut : k2 < k1
    /\ \A k1, k2 \in UnmatchedOut :
          k1 < k2 => emitted[k1].r < emitted[k2].r

C3_Values ==
    \A k \in UnmatchedOut : LeftColsNull(k) /\ HoldsRightValues(k, emitted[k].r)

\* C3: unmatched right rows come last, once each, with null left columns
C3_UnmatchedRight ==
    (Done /\ IsJoin) => C3_Counts /\ C3_Order /\ C3_Values

\* C3 on the inputs whose merged column names do not clash
C3_UnmatchedRightNoClash ==
    (Done /\ IsJoin /\ NoNameClash) => C3_Counts /\ C3_Order /\ C3_Values

C3_Structure == (Done /\ IsJoin) => C3_Counts /\ C3_Order

(***************************************************************************)
(* C4: row coverage by join type.  In a left or full join every left row   *)
(* contributes at least one output row; in a right or full join every      *)
(* right row contributes at least one output row; in an inner join every   *)
(* output row is built from a left row and a right row with equal          *)
(* normalized keys.                                                        *)
(***************************************************************************)
C4_RowCoverage ==
    (Done /\ IsJoin) =>
        /\ Len(result.data) = Len(emitted)
        /\ joinType \in {"left", "full"} =>
              \A i \in LeftIx : RowsOfLeft(i) # {}
        /\ joinType \in {"right", "full"} =>
              \A j \in RightIx : RowsOfRight(j) # {}
        /\ joinType = "inner" =>
              \A k \in OutIx :
                  /\ emitted[k].l \in LeftIx
                  /\ emitted[k].r \in RightIx
                  /\ KeysEqual(emitted[k].l, emitted[k].r)

\* a full join with a matched pair, an unmatched left row and an unmatched
\* right row
C4_Witness ==
    /\ Done
    /\ joinType = "full"
    /\ \E i \in LeftIx, j \in RightIx : KeysEqual(i, j)
    /\ \E i \in LeftIx : LeftUnmatched(i)
    /\ \E j \in RightIx : RightUnmatched(j)
    /\ Len(result.data) = 3

(***************************************************************************)
(* C5: a left row and a right row match if and only if both key values are *)
(* null/undefined, or both are non-null and their string forms are equal   *)
(* after trimming surrounding whitespace and lowercasing.                  *)
(***************************************************************************)
TrimmedLower(v) == toLowerCase(trim(String(v)))

ClaimedMatch(a, b) ==
    \/ IsNullish(a) /\ IsNullish(b)
    \/ /\ ~IsNullish(a)
       /\ ~IsNullish(b)
       /\ TrimmedLower(a) = TrimmedLower(b)

\* C5: two rows are joined exactly when their keys match as claimed
C5_KeyMatching ==
    (Done /\ IsJoin) =>
        \A i \in LeftIx, j \in RightIx :
            (\E k \in 1..Len(result.data) : emitted[k] = [l |-> i, r |-> j])
            <=> ClaimedMatch(Get(leftData[i], leftKey), Get(rightData[j], rightKey))

\* "Foo " on the left matched "foo" on the right
C5_Witness ==
    /\ Done
    /\ joinType = "inner"
    /\ Len(leftData) = 1
    /\ Len(rightData) = 1
    /\ Get(leftData[1], leftKey) = Str(<<"F", "o", "o", " ">>)
    /\ Get(rightData[1], rightKey) = Str(<<"f", "o", "o">>)
    /\ Len(result.data) = 1

\* the number 1 matched the string "1", and null did not match "__NULL__"
C5_NumberMatchesString ==
    (Done /\ joinType = "inner" /\ Len(leftData) = 1 /\ Len(rightData) = 1) =>
        /\ (Get(leftData[1], leftKey) = Num(1)
            /\ Get(rightData[1], rightKey) = Str(<<"1">>))
           => Len(result.data) = 1
        /\ (Get(leftData[1], leftKey) = Null
            /\ Get(rightData[1], rightKey) = Str(NullSentinel))
           => Len(result.data) = 0

(***************************************************************************)
(* C6: for every join type other than append, mergeDatasets fails with an  *)
(* InvalidJoinKey error, and produces no merged result, whenever leftKey   *)
(* is not a column of leftColumns or rightKey is not a column of           *)
(* rightColumns; append never fails on key names.                          *)
(***************************************************************************)
InvalidJoinKey == [error |-> "InvalidJoinKey"]

KeyMissing ==
    \/ leftKey \notin ColNames(leftColumns)
    \/ rightKey \notin ColNames(rightColumns)

\* C6: the call fails with InvalidJoinKey exactly when the join is not an
\* append and a key names no column
C6_InvalidJoinKey ==
    Done => (result = InvalidJoinKey <=> (joinType # "append" /\ KeyMissing))

\* the half of C6 the code does satisfy: append never fails on key names
C6_AppendNeverFails ==
    (Done /\ joinType = "append") => result # InvalidJoinKey

(***************************************************************************)
(* C7: in an inner, left, right or full join the result's column list is   *)
(* the left columns in order, followed by the right columns in order       *)
(* except the one named rightKey; a right column whose name is a left      *)
(* column's name is renamed to that name plus "_right", every other right  *)
(* column keeps its name; types are preserved; and a right column's values *)
(* are read from the right row under its original name.                    *)
(***************************************************************************)
KeptRight == SelectSeq(rightColumns, LAMBDA c : c.name # rightKey)

C7_ColumnList ==
    /\ Len(result.columns) = Len(leftColumns) + Len(KeptRight)
    /\ \A i \in 1..Len(leftColumns) : result.columns[i] = leftColumns[i]
    /\ \A i \in 1..Len(KeptRight) :
          LET c == result.columns[Len(leftColumns) + i]
          IN  /\ c.name = MergedName(KeptRight[i])
              /\ c.type = KeptRight[i].type

C7_ReadUnderOriginalName ==
    \A i \in 1..Len(KeptRight) :
        sourceKey(result.columns[Len(leftColumns) + i]) = KeptRight[i].name

\* C7: the merged column list and the name each right value is read under
C7_MergedColumns ==
    (Done /\ IsJoin) => C7_ColumnList /\ C7_ReadUnderOriginalName

\* the column list alone
C7_ColumnListOnly == (Done /\ IsJoin) => C7_ColumnList

(***************************************************************************)
(* C8: whenever the left column names are pairwise distinct and the right  *)
(* column names are pairwise distinct, the column names of the merge       *)
(* result are pairwise distinct, for every join type and choice of keys.   *)
(***************************************************************************)
C8_DistinctNames ==
    (Done /\ Distinct(leftColumns) /\ Distinct(rightColumns))
    => Distinct(result.columns)

\* the append half of C8
C8_AppendDistinct ==
    (Done /\ joinType = "append" /\ Distinct(leftColumns) /\ Distinct(rightColumns))
    => Distinct(result.columns)

(***************************************************************************)
(* C9: output row counts.  With m(l) the number of right rows whose        *)
(* normalized key equals that of left row l, an inner join returns the sum *)
(* over left rows of m(l) rows, a left join the sum of max(m(l), 1), and a *)
(* full join the left-join count plus the number of right rows whose key   *)
(* equals the key of no left row.                                          *)
(***************************************************************************)
RECURSIVE SumMatches(_)
SumMatches(n) == IF n = 0 THEN 0 ELSE SumMatches(n - 1) + MatchCount(n)

RECURSIVE SumMatchesOrOne(_)
SumMatchesOrOne(n) ==
    IF n = 0 THEN 0
    ELSE SumMatchesOrOne(n - 1) + (IF MatchCount(n) > 1 THEN MatchCount(n) ELSE 1)

UnmatchedRightCount == Cardinality({j \in RightIx : RightUnmatched(j)})

\* C9: the row counts of the inner, left and full joins
C9_RowCounts ==
    Done =>
        /\ joinType = "inner" => Len(result.data) = SumMatches(Len(leftData))
        /\ joinType = "left"  => Len(result.data) = SumMatchesOrOne(Len(leftData))
        /\ joinType = "full"  =>
              Len(result.data) = SumMatchesOrOne(Len(leftData)) + UnmatchedRightCount

\* an inner join in which one left row matched two right rows and another
\* left row matched none
C9_Witness ==
    /\ Done
    /\ joinType = "inner"
    /\ \E i \in LeftIx : MatchCount(i) = 2
    /\ \E i \in LeftIx : MatchCount(i) = 0
    /\ Len(result.data) = 2

(***************************************************************************)
(* C10: on the same pair of datasets and the same keys, the inner join     *)
(* returns at most as many rows as the left join, which returns at most as *)
(* many rows as the full join.                                             *)
(***************************************************************************)
RowsReturned(jType) ==
    Len(mergeDatasets(leftData, rightData, leftColumns, rightColumns,
                      leftKey, rightKey, jType).data)

\* C10: rows(inner) <= rows(left) <= rows(full) on the same inputs
C10_CountOrder ==
    (Done /\ joinType = "left") =>
        /\ RowsReturned("inner") <= Len(result.data)
        /\ Len(result.data) <= RowsReturned("full")

\* a left join that returned more rows than the inner join and fewer than
\* the full join
C10_Witness ==
    /\ Done
    /\ joinType = "left"
    /\ RowsReturned("inner") < Len(result.data)
    /\ Len(result.data) < RowsReturned("full")

(***************************************************************************)
(* C11: an append returns |leftData| + |rightData| rows, the left rows in  *)
(* their order followed by the right rows in their order; every output row *)
(* has a field for every column of the union column set and no others,     *)
(* holding the source row's value for a column its source dataset declares *)
(* and null for a column absent from its source dataset.                   *)
(***************************************************************************)
UnionNames == ColNames(leftColumns) \cup ColNames(rightColumns)

AppendedFrom(out, row, cols) ==
    /\ DOMAIN out = UnionNames
    /\ \A n \in UnionNames :
          out[n] = IF n \in ColNames(cols) THEN Coalesce(Get(row, n)) ELSE Null

C11_AppendRows ==
    (Done /\ joinType = "append") =>
        /\ Len(result.data) = Len(leftData) + Len(rightData)
        /\ \A i \in LeftIx :
              AppendedFrom(result.data[i], leftData[i], leftColumns)
        /\ \A j \in RightIx :
              AppendedFrom(result.data[Len(leftData) + j], rightData[j], rightColumns)

\* an append of two non-empty datasets, each with a column the other lacks
C11_Witness ==
    /\ Done
    /\ joinType = "append"
    /\ Len(leftData) = 2
    /\ Len(rightData) = 2
    /\ ColNames(leftColumns) \ ColNames(rightColumns) # {}
    /\ ColNames(rightColumns) \ ColNames(leftColumns) # {}
    /\ Len(result.data) = 4

(***************************************************************************)
(* C12: the column list of an append is the left columns in their order    *)
(* followed by the right columns whose name is not a left column name, in  *)
(* their order (on a shared name the left column, with its type, is kept); *)
(* and the append result does not depend on leftKey and rightKey.          *)
(***************************************************************************)
AppendKeyNames == NameSet \cup LeftKeyNames \cup RightKeyNames

recInputs == <<columns, dimension, measures>>
sugInputs == <<sugLeftCols, sugRightCols>>

RecDone == rpc = "done"

NumCount  == effectiveNumeric(columns, measures)
CatCount  == effectiveCategorical(columns, dimension)
DateCount == effectiveDate(columns)

NoAssignment == ~hasDimension(dimension) /\ measureCount(measures) = 0

RecIx == 1..Len(recs)

\* the (type, score) pairs of the returned list
Returned == {<<recs[i].type, recs[i].score>> : i \in RecIx}

TableEntry == Rec("TABLE", 40, "Raw data table view")

(***************************************************************************)
(* C14  The rule table.                                                    *)
(***************************************************************************)
\* the (type, score) pairs the rule table gives for the counts
TablePairs(cat, num, date) ==
    (IF cat >= 1 /\ num >= 1
     THEN {<<"BAR_CLUSTERED", 90>>, <<"BAR_HORIZONTAL", 82>>, <<"PIE", 75>>,
           <<"DONUT", 74>>, <<"TREEMAP", 68>>, <<"ROSE", 60>>,
           <<"SUNBURST", 55>>, <<"LINE_SMOOTH", 70>>, <<"AREA_SMOOTH", 65>>}
     ELSE {})
    \cup (IF cat >= 1 /\ num >= 2
          THEN {<<"BAR_STACKED", 85>>, <<"BAR_PERCENT", 78>>,
                <<"COMBO_BAR_LINE", 82>>, <<"COMBO_AREA_LINE", 70>>}
          ELSE {})
    \cup (IF cat >= 1 /\ num >= 3
          THEN {<<"RADAR", 72>>, <<"RADIAL_BAR", 60>>}
          ELSE {})
    \cup (IF cat >= 2 /\ num >= 1 THEN {<<"HEATMAP", 75>>} ELSE {})
    \cup (IF date >= 1 /\ num >= 1
          THEN {<<"LINE_SMOOTH", 95>>, <<"LINE_STRAIGHT", 88>>,
                <<"AREA_SMOOTH", 84>>, <<"AREA_STACKED", 80>>}
          ELSE {})
    \cup (IF num >= 2 THEN {<<"SCATTER", 85>>} ELSE {})
    \cup (IF num >= 3 THEN {<<"BUBBLE", 80>>} ELSE {})
    \cup (IF num >= 1
          THEN {<<"KPI_SINGLE", 60>>, <<"GAUGE", 55>>, <<"SPARKLINE", 50>>}
          ELSE {})
    \cup {<<"TABLE", 40>>}

\* of the pairs of one type, the one with the greatest score
TableBest(cat, num, date) ==
    LET pairs == TablePairs(cat, num, date)
    IN  {p \in pairs : \A q \in pairs : q[1] = p[1] => q[2] <= p[2]}

C15_TableAlways ==
    (RecDone /\ Len(columns) > 0) =>
        /\ Len(recs) > 0
        /\ <<"TABLE", 40>> \in Returned

\* columns that fire no other rule: the table is the whole answer
C15_Witness ==
    /\ RecDone
    /\ Len(columns) > 0
    /\ recs = <<TableEntry>>

(***************************************************************************)
(* C16  One entry per chart type, the best one.                            *)
(***************************************************************************)
\* every add(...) of the call
Fired ==
    LET scores == scoresOf(CatCount, NumCount, DateCount)
    IN  {scores[i] : i \in 1..Len(scores)}

BothLineRulesFire == CatCount >= 1 /\ NumCount >= 1 /\ DateCount >= 1

\* C16: a chart type appears at most once, with the greatest score of the
\* rules that produced it and the reason of that rule, scores within 0..100
C16_BestPerType ==
    RecDone =>
        /\ \A i, j \in RecIx : recs[i].type = recs[j].type => i = j
        /\ \A i \in RecIx :
              /\ recs[i] \in Fired
              /\ recs[i].score \in 0..100
              /\ \A f \in Fired : f.type = recs[i].type => f.score <= recs[i].score
        /\ \A f \in Fired : \E i \in RecIx : recs[i].type = f.type
        /\ BothLineRulesFire =>
              /\ Rec("LINE_SMOOTH", 95, "Best for time-series trends")
                    \in {recs[i] : i \in RecIx}
              /\ Rec("AREA_SMOOTH", 84, "Time trend with volume emphasis")
                    \in {recs[i] : i \in RecIx}

\* both the time-series rule and the category rule produced LINE_SMOOTH
C16_Witness ==
    /\ RecDone
    /\ BothLineRulesFire
    /\ \E i \in RecIx : recs[i].type = "LINE_SMOOTH"

(***************************************************************************)
(* C17  The order of the answer.                                           *)
(***************************************************************************)
\* the position at which the rules first produced a chart type
FirstProduced(type) ==
    LET scores == scoresOf(CatCount, NumCount, DateCount)
    IN  CHOOSE k \in 1..Len(scores) :
            /\ scores[k].type = type
            /\ \A h \in 1..(k - 1) : scores[h].type # type

HasType(type) == CountOfType(columns, type) >= 1

\* C18: without an assignment, a date and a number column put LINE_SMOOTH
\* 95 first; a string and a number column without a date column put
\* BAR_CLUSTERED 90 first
C18_FirstRecommendation ==
    (RecDone /\ NoAssignment) =>
        /\ (HasType("date") /\ HasType("number")) =>
              /\ recs[1].type = "LINE_SMOOTH"
              /\ recs[1].score = 95
        /\ (~HasType("date") /\ HasType("string") /\ HasType("number")) =>
              /\ recs[1].type = "BAR_CLUSTERED"
              /\ recs[1].score = 90

\* a date, a number and a string column: the bar rule fires too
C18_Witness ==
    /\ RecDone
    /\ NoAssignment
    /\ HasType("date")
    /\ HasType("number")
    /\ HasType("string")
    /\ recs[1].type = "LINE_SMOOTH"

(***************************************************************************)
(* C19  The empty column list.                                             *)
(***************************************************************************)
\* C19: for the empty column list the result is exactly the
\* table entry, whatever the dimension and measures
C19_EmptyColumnsAnyAssignment ==
    (RecDone /\ columns = <<>>) => recs = <<TableEntry>>

\* what the code does hold to: for the empty column list the result is
\* exactly the table entry whenever no measure is assigned, whatever the
\* dimension
C19_EmptyColumnsNoMeasures ==
    (RecDone /\ columns = <<>> /\ measureCount(measures) = 0) =>
        recs = <<TableEntry>>

(***************************************************************************)
(* C20  The top five for string and number columns.                        *)
(***************************************************************************)
TypeScores(list) == [i \in 1..Len(list) |-> <<list[i].type, list[i].score>>]

\* C20: without an assignment, at least one string and two number columns
\* and no date column give, first to fifth, BAR_CLUSTERED 90, BAR_STACKED 85,
\* SCATTER 85, COMBO_BAR_LINE 82, BAR_HORIZONTAL 82
C20_TopFive ==
    (/\ RecDone
     /\ NoAssignment
     /\ CountOfType(columns, "string") >= 1
     /\ CountOfType(columns, "number") >= 2
     /\ ~HasType("date")) =>
        /\ Len(recs) >= 5
        /\ TypeScores(SubSeq(recs, 1, 5)) =
              << <<"BAR_CLUSTERED", 90>>, <<"BAR_STACKED", 85>>,
                 <<"SCATTER", 85>>, <<"COMBO_BAR_LINE", 82>>,
                 <<"BAR_HORIZONTAL", 82>> >>

\* what the code returns there: the horizontal bar, produced before the
\* combo, comes fourth
C20_TopFiveAsReturned ==
    (/\ RecDone
     /\ NoAssignment
     /\ CountOfType(columns, "string") >= 1
     /\ CountOfType(columns, "number") >= 2
     /\ ~HasType("date")) =>
        /\ Len(recs) >= 5
        /\ TypeScores(SubSeq(recs, 1, 5)) =
              << <<"BAR_CLUSTERED", 90>>, <<"BAR_STACKED", 85>>,
                 <<"SCATTER", 85>>, <<"BAR_HORIZONTAL", 82>>,
                 <<"COMBO_BAR_LINE", 82>> >>

(***************************************************************************)
(* Vocabulary of the suggestion properties.                                *)
(***************************************************************************)
SugDone == spc = "done"

SugIx == 1..Len(suggestions)
SugLeftIx == 1..Len(sugLeftCols)
SugRightIx == 1..Len(sugRightCols)

(***************************************************************************)
(* C21  Shape and order of the suggestions.                                *)
(***************************************************************************)
\* C21: every suggestion has confidence 100, 60 or 30, names a left column
\* and a right column of the inputs, and the list is sorted by confidence,
\* highest first
C21_SuggestionShape ==
    SugDone =>
        /\ \A k \in SugIx :
              /\ suggestions[k].confidence \in {100, 60, 30}
              /\ \E i \in SugLeftIx : sugLeftCols[i].name = suggestions[k].leftKey
              /\ \E j \in SugRightIx : sugRightCols[j].name = suggestions[k].rightKey
        /\ \A k, h \in SugIx :
              k < h => suggestions[k].confidence >= suggestions[h].confidence

\* a lower confidence was pushed before a higher one and sorted behind it
C21_Witness ==
    /\ SugDone
    /\ Len(suggestions) >= 2
    /\ suggestions[1].confidence = 100
    /\ suggestions[Len(suggestions)].confidence = 30
    /\ cleanName(sugLeftCols[1].name) # cleanName(sugRightCols[1].name)

(***************************************************************************)
(* C22  One suggestion per qualifying pair.                                *)
(***************************************************************************)
\* the confidence the three rules give a pair of columns, 0 for none
RuleConfidence(lc, rc) ==
    LET ln == cleanName(lc.name)
        rn == cleanName(rc.name)
    IN  IF ln = rn THEN 100
        ELSE IF includes(ln, rn) \/ includes(rn, ln) THEN 60
        ELSE IF /\ lc.type = rc.type
                /\ slice0(ln, 3) = slice0(rn, 3)
                /\ Len(ln) > 3
                /\ Len(rn) > 3
        THEN 30
        ELSE 0

\* every pair of a left and a right column, with the confidence of its rule
PairConfidences ==
    {<<p[1], p[2], RuleConfidence(sugLeftCols[p[1]], sugRightCols[p[2]])>> :
        p \in SugLeftIx \X SugRightIx}

SuggestionOfPair(t) ==
    [leftKey    |-> sugLeftCols[t[1]].name,
     rightKey   |-> sugRightCols[t[2]].name,
     confidence |-> t[3]]

\* C22: each pair of a left and a right column gets exactly one suggestion,
\* with the confidence of the first rule that applies to it, and no
\* suggestion when none applies
C22_OnePerPair ==
    SugDone =>
        \A qualifying \in {{t \in PairConfidences : t[3] > 0}} :
           /\ Len(suggestions) = Cardinality(qualifying)
           /\ \A t \in qualifying :
                 Cardinality({k \in SugIx : suggestions[k] = SuggestionOfPair(t)})
                    = Cardinality({u \in qualifying :
                                      SuggestionOfPair(u) = SuggestionOfPair(t)})

\* a_b against Ab: one suggestion, of confidence 100, as for customer_id
\* against CustomerID
C22_Witness ==
    /\ SugDone
    /\ sugLeftCols = <<Col(<<"a", "_", "b">>, "number")>>
    /\ sugRightCols = <<Col(<<"A", "b">>, "string")>>
    /\ suggestions = <<[leftKey |-> <<"a", "_", "b">>, rightKey |-> <<"A", "b">>,
                        confidence |-> 100]>>

(***************************************************************************)
(* C28  Swapping the arguments swaps the suggestions.                      *)
(***************************************************************************)
Triples(list) ==
    {<<list[k].leftKey, list[k].rightKey, list[k].confidence>> : k \in 1..Len(list)}

Swapped(triples) == {<<t[2], t[1], t[3]>> : t \in triples}

\* C28: the suggestions for (L, R) are those for (R, L) with the two keys
\* exchanged, and a suggestion of confidence 30 joins two names that are
\* both longer than 3 characters once normalized
C28_Symmetric ==
    SugDone =>
        /\ Triples(suggestions)
              = Swapped(Triples(suggestJoinKeys(sugRightCols, sugLeftCols)))
        /\ \A k \in SugIx :
              suggestions[k].confidence = 30 =>
                  /\ Len(cleanName(suggestions[k].leftKey)) > 3
                  /\ Len(cleanName(suggestions[k].rightKey)) > 3

\* a three-character left name inside a longer right name, and a
\* shared-prefix pair
C28_Witness ==
    /\ SugDone
    /\ \E k \in SugIx :
          /\ suggestions[k].confidence = 60
          /\ Len(cleanName(suggestions[k].leftKey)) = 3
          /\ Len(cleanName(suggestions[k].rightKey)) > 3
    /\ \E k \in SugIx : suggestions[k].confidence = 30

(***************************************************************************)
(* C23  The counts the rules are evaluated on.                             *)
(***************************************************************************)
ColumnsOfType(type) == Cardinality({i \in 1..Len(columns) : columns[i].type = type})

\* a column list with the given numbers of string, number and date columns
ColumnsWithCounts(cat, num, date) ==
    [i \in 1..(cat + num + date) |->
        Col(ColumnName(i),
            IF i <= cat THEN "string"
            ELSE IF i <= cat + num THEN "number" ELSE "date")]

\* the answer for the three counts alone, without any assignment
AnswerForCounts(cat, num, date) ==
    recommendCharts(ColumnsWithCounts(cat, num, date), Undefined, Undefined)

\* the counts of the claim: a list or a dimension counts as soon as it is given
GivenNumeric ==
    IF ~IsNullish(measures) THEN Len(measures.items) ELSE ColumnsOfType("number")
GivenCategorical ==
    IF ~IsNullish(dimension) THEN 1 ELSE ColumnsOfType("string")

\* C23: the rules are evaluated on numeric = measures.length whenever a
\* measures list is given, categorical = 1 whenever a dimension is given,
\* otherwise on the column counts, and the result is a function of these
\* counts and the date column count
C23_GivenCounts ==
    RecDone =>
        /\ Returned = TableBest(GivenCategorical, GivenNumeric, ColumnsOfType("date"))
        /\ recs = AnswerForCounts(GivenCategorical, GivenNumeric, ColumnsOfType("date"))

\* the counts when an empty measures list and an empty dimension count as
\* not given
AssignedNumeric ==
    IF ~IsNullish(measures) /\ Len(measures.items) > 0
    THEN Len(measures.items) ELSE ColumnsOfType("number")
AssignedCategorical ==
    IF ~IsNullish(dimension) /\ dimension # Str(<<>>)
    THEN 1 ELSE ColumnsOfType("string")

\* C23, amended: the rules are evaluated on numeric = measures.length
\* whenever a non-empty measures list is given, categorical = 1 whenever a
\* non-empty dimension is given, otherwise on the column counts, and the
\* result is a function of these counts and the date column count
C23_AssignedCounts ==
    RecDone =>
        /\ Returned = TableBest(AssignedCategorical, AssignedNumeric,
                                ColumnsOfType("date"))
        /\ recs = AnswerForCounts(AssignedCategorical, AssignedNumeric,
                                  ColumnsOfType("date"))

\* an assignment that disagrees with the columns: one measure against two
\* number columns, a dimension against two string columns
C23_Witness ==
    /\ RecDone
    /\ hasDimension(dimension)
    /\ measureCount(measures) = 1
    /\ ColumnsOfType("number") = 2
    /\ \E i \in RecIx : recs[i].type = "BAR_CLUSTERED"
    /\ \A i \in RecIx : recs[i].type # "SCATTER"

(***************************************************************************)
(* C29  The heatmap and the assigned dimension.                            *)
(***************************************************************************)
HeatmapReturned == \E i \in RecIx : recs[i].type = "HEATMAP"

\* C29: with a dimension assigned HEATMAP is never returned; without one it
\* is returned, with score 75, exactly when there are at least two string
\* columns and the numeric count is at least 1
C29_Heatmap ==
    RecDone =>
        /\ hasDimension(dimension) => ~HeatmapReturned
        /\ ~hasDimension(dimension) =>
              /\ HeatmapReturned <=> (ColumnsOfType("string") >= 2 /\ NumCount >= 1)
              /\ \A i \in RecIx : recs[i].type = "HEATMAP" => recs[i].score = 75

\* a dimension assigned on a dataset with two string columns and a number
\* column
C29_Witness ==
    /\ RecDone
    /\ hasDimension(dimension)
    /\ ColumnsOfType("string") >= 2
    /\ NumCount >= 1
    /\ ~HeatmapReturned

(***************************************************************************)
(* C26  A null key matches no non-null key.                                *)
(***************************************************************************)
LeftKeyValue(i)  == Get(leftData[i], leftKey)
RightKeyValue(j) == Get(rightData[j], rightKey)

\* C26: a row whose key is null or undefined is never paired with a row
\* whose key is not, and no non-null key value is normalized to the
\* sentinel that stands for null
C26_NullNeverMatches ==
    (Done /\ IsJoin) =>
        /\ \A i \in LeftIx, j \in RightIx :
              IsNullish(LeftKeyValue(i)) # IsNullish(RightKeyValue(j)) =>
                  RowsOfPair(i, j) = {}
        /\ \A i \in LeftIx :
              ~IsNullish(LeftKeyValue(i)) => LeftKeyAt(i) # NullSentinel
        /\ \A j \in RightIx :
              ~IsNullish(RightKeyValue(j)) => RightKeyAt(j) # NullSentinel

\* a null key on the left, the string __NULL__ as key on the right: the
\* full join keeps the two rows apart
C26_Witness ==
    /\ Done
    /\ joinType = "full"
    /\ Len(leftData) = 1
    /\ Len(rightData) = 1
    /\ LeftKeyValue(1) = Null
    /\ RightKeyValue(1) = Str(NullSentinel)
    /\ emitted = <<[l |-> 1, r |-> 0], [l |-> 0, r |-> 1]>>

(***************************************************************************)
(* C27  Left and right joins mirror each other in size.                    *)
(***************************************************************************)
\* the number of rows of the join of the same two datasets the other way
\* round
MirrorCount(jType) ==
    Len(mergeDatasets(rightData, leftData, rightColumns, leftColumns,
                      rightKey, leftKey, jType).data)

InnerCount ==
    Len(mergeDatasets(leftData, rightData, leftColumns, rightColumns,
                      leftKey, rightKey, "inner").data)

\* C27: the left join of (A, B) has as many rows as the right join of
\* (B, A), and a right join has the rows of the inner join plus one for
\* each right row whose key matches no left row
C27_Mirror ==
    Done =>
        /\ joinType = "left" => Len(result.data) = MirrorCount("right")
        /\ joinType = "right" =>
              /\ Len(result.data) = MirrorCount("left")
              /\ Len(result.data) = InnerCount + UnmatchedRightCount

\* a right join with a matched pair and an unmatched row on each side
C27_Witness ==
    /\ Done
    /\ joinType = "right"
    /\ \E i \in LeftIx : MatchCount(i) >= 1
    /\ \E i \in LeftIx : LeftUnmatched(i)
    /\ \E j \in RightIx : RightUnmatched(j)
    /\ Len(result.data) = 2

(***************************************************************************)
(* C24  The type given to a column on ingestion.                           *)
(***************************************************************************)
UpDone == upc = "done"

DataIx == 1..Len(ingested.data)

LooksLikeDate(s) ==
    /\ Len(s) = 10
    /\ s[5] = "-"
    /\ s[8] = "-"
    /\ \A i \in {1, 2, 3, 4, 6, 7, 9, 10} : IsDigit(s[i])

\* the type of one value
ValueType(v) ==
    IF v.t = "number" THEN "number"
    ELSE IF v.t = "string" /\ LooksLikeDate(v.s) THEN "date"
    ELSE "string"

\* more than half of the rows hold a value of the type under the header
Majority(header, type) ==
    2 * Cardinality({r \in DataIx : ValueType(Get(ingested.data[r], header)) = type})
        > Len(ingested.data)

\* C24: every column is classified once, as number, string or date, with
\* the type of the majority of its values
C24_MajorityType ==
    UpDone =>
        /\ Len(ingested.columns) = Len(fileHeaders)
        /\ \A i \in 1..Len(fileHeaders) :
              /\ ingested.columns[i].name = fileHeaders[i]
              /\ ingested.columns[i].type \in {"number", "string", "date"}
              /\ \A type \in {"number", "string", "date"} :
                    Majority(fileHeaders[i], type) => ingested.columns[i].type = type

\* what the code does: one column per header, number or string after the
\* value of the first data row alone
C24_FirstRowType ==
    UpDone =>
        /\ Len(ingested.columns) = Len(fileHeaders)
        /\ \A i \in 1..Len(fileHeaders) :
              /\ ingested.columns[i].name = fileHeaders[i]
              /\ ingested.columns[i].type =
                    IF ValueType(Get(ingested.data[1], fileHeaders[i])) = "number"
                    THEN "number" ELSE "string"


(***************************************************************************)
(* C25: in the merge dialog, under any sequence of selections, Preview,    *)
(* Back and Confirm: the preview is computed only by a Preview step, as    *)
(* the mergeDatasets result of the selection; step 2 is entered only by    *)
(* such a Preview; a dataset is added only by Confirm in step 2, it is     *)
(* appended to the unchanged existing datasets, carries the merged marker  *)
(* and has the columns and rows mergeDatasets gives for the left dataset,  *)
(* right dataset, join type and first key pair selected at that moment; a  *)
(* step that sets an error stays in step 1 and adds nothing.               *)
(***************************************************************************)
Delivered == datasets'[Len(datasets')]

C30_Pages ==
    /\ pages # <<>>
    /\ activePageId \in PageIds(pages)
    /\ \A i \in 1..Len(charts) : charts[i].pageId \in PageIds(pages)

====
